---------------------------- MODULE Spec2Model ----------------------------
(***************************************************************************)
(* Model of the robust aggregation engine of rgnn_at_scale                 *)
(* (src/rgnn_at_scale/aggregation.py): the chunking driver, the CPU top-k  *)
(* selector, the soft k-medoid (dense and sparse path) and the hard        *)
(* medoid / dimension-wise median aggregations.                            *)
(*                                                                         *)
(* Conventions.  Node and row indices are 0-based as in the code; Python   *)
(* lists are sequences.  Edge weights and features are integers (a subset  *)
(* of the floats the code accepts), so that every value the code computes  *)
(* on them is an exact rational; rationals are pairs <<num, den>> in       *)
(* lowest terms.  torch.finfo(dtype).max is the value FMAX.                *)
(***************************************************************************)
EXTENDS Integers, Sequences, FiniteSets, TLC

VARIABLES
    pc,       \* position of the call under study: "ready", "chunk", "done", "raised"
    args,     \* the arguments of the call (fixed by Init)
    chunker,  \* the fields of the Chunker object
    result,   \* the list `result` of Chunker.chunk
    ret       \* the value(s) returned so far

vars == <<pc, args, chunker, result, ret>>

(***************************************************************************)
(* Bounds of the model.                                                    *)
(***************************************************************************)
ChunkMaxN == 5        \* Chunker: n ranges over 1..ChunkMaxN
MaxChunks == 5        \* Chunker: n_chunks ranges over 1..MaxChunks

Weights == {1, 2}     \* the nonzero edge weights the inputs are drawn from

(***************************************************************************)
(* Arithmetic helpers.                                                     *)
(***************************************************************************)
Abs(a) == IF a < 0 THEN -a ELSE a

Max2(a, b) == IF a < b THEN b ELSE a

RECURSIVE SumTo(_, _)
\* f[0] + ... + f[m-1] for a function f on 0..m-1
SumTo(f, m) == IF m = 0 THEN 0 ELSE SumTo(f, m - 1) + f[m - 1]

RECURSIVE SumSeq(_)
SumSeq(s) == IF s = <<>> THEN 0 ELSE Head(s) + SumSeq(Tail(s))

RECURSIVE Flatten(_)
\* torch.cat / np.hstack of a list of blocks
Flatten(ss) == IF ss = <<>> THEN <<>> ELSE Head(ss) \o Flatten(Tail(ss))

(***************************************************************************)
(* chunked_message_and_aggregate and Chunker.                              *)
(***************************************************************************)
\* int(math.ceil(n / n_chunks))
ChunkSize(n, n_chunks) == (n + n_chunks - 1) \div n_chunks

\* self.lower = [chunk * self.chunk_size for chunk in range(self.n_chunks)]
ChunkerLower(n, n_chunks) ==
    [c \in 1..n_chunks |-> (c - 1) * ChunkSize(n, n_chunks)]

\* self.upper = [(chunk + 1) * self.chunk_size ...]; self.upper[-1] = n
ChunkerUpper(n, n_chunks) ==
    [c \in 1..n_chunks |-> IF c = n_chunks THEN n ELSE c * ChunkSize(n, n_chunks)]

\* Chunker.__init__
NewChunker(n, n_chunks, requires_grad, do_synchronize) ==
    [built |-> TRUE, n |-> n, n_chunks |-> n_chunks,
     requires_grad |-> requires_grad, do_synchronize |-> do_synchronize,
     chunk_size |-> ChunkSize(n, n_chunks),
     lower |-> ChunkerLower(n, n_chunks),
     upper |-> ChunkerUpper(n, n_chunks)]

NoChunker ==
    [built |-> FALSE, n |-> 0, n_chunks |-> 0,
     requires_grad |-> FALSE, do_synchronize |-> FALSE,
     chunk_size |-> 0, lower |-> <<>>, upper |-> <<>>]

\* The default aggregation_function, torch_sparse.matmul(adj, x, reduce='sum'),
\* on a list of adjacency rows: one output row per adjacency row, row r being
\* sum_j adj[r][j] * x[j] (x[j] is the feature vector of node j, a sequence
\* over the feature dimensions).  It is row-wise: a row of the output depends on the
\* same row of the adjacency only.
SumAggregate(rows, x, n) ==
    [r \in 1..Len(rows) |->
        [dd \in DOMAIN x[0] |->
            SumTo([j \in 0..(n - 1) |-> rows[r][j] * x[j][dd]], n)]]

\* All rows of the adjacency, as the list the aggregation function sees.
AllRows(adj, n) == [r \in 1..n |-> adj[r - 1]]

\* adj[lower:upper, :] of a torch_sparse.SparseTensor with n rows: the slice is
\* narrow(0, lower, max(upper - lower, 0)), which narrows the row pointer of
\* n + 1 entries by length + 1 and raises when lower + length exceeds n.
SliceRaises(n, lower, upper) == lower + Max2(upper - lower, 0) > n

RowSlice(adj, lower, upper) ==
    [r \in 1..Max2(upper - lower, 0) |-> adj[lower + r - 1]]

\* torch.utils.checkpoint.checkpoint(run, *inputs): the forward value is the one
\* run(*inputs) returns; the activations are recomputed in the backward pass.
Checkpoint(value) == value

\* row_chunked_matmul_run for one block
RunBlock(adj, x, n, lower, upper) == SumAggregate(RowSlice(adj, lower, upper), x, n)

ChunkAdjs(n) ==
    \* a ring with self loops: A[i][i] drawn from Weights, A[i][i+1 mod n] = 1
    {[i \in 0..(n - 1) |->
        [j \in 0..(n - 1) |-> IF j = i THEN d[i]
                              ELSE IF j = (i + 1) % n THEN 1 ELSE 0]] :
     d \in [0..(n - 1) -> Weights]}

ChunkArgs ==
    UNION {[n : {n}, n_chunks : 1..MaxChunks, adj : ChunkAdjs(n),
            x : {[j \in 0..(n - 1) |-> <<j + 1>>]},
            weights_require_grad : BOOLEAN] : n \in 1..ChunkMaxN}

NoRet == [status |-> "none", value |-> <<>>]

InitChunk ==
    /\ pc = "ready"
    /\ args \in ChunkArgs
    /\ chunker = NoChunker
    /\ result = <<>>
    /\ ret = NoRet

\* chunked_message_and_aggregate, the edge weights do not require gradients:
\* the aggregation function is called once on the whole adjacency.
AggregateUnchunked ==
    /\ pc = "ready"
    /\ ~args.weights_require_grad
    /\ ret' = [status |-> "ok",
               value |-> SumAggregate(AllRows(args.adj, args.n), args.x, args.n)]
    /\ pc' = "done"
    /\ UNCHANGED <<args, chunker, result>>

\* chunked_message_and_aggregate, the edge weights require gradients:
\* chunker = Chunker(n, n_chunks, True)
AggregateChunked ==
    /\ pc = "ready"
    /\ args.weights_require_grad
    /\ chunker' = NewChunker(args.n, args.n_chunks, TRUE, FALSE)
    /\ pc' = "chunk"
    /\ UNCHANGED <<args, result, ret>>

\* A caller's own Chunker(n, n_chunks, requires_grad, do_synchronize), driven
\* with the same per-block function.
UseChunker ==
    /\ pc = "ready"
    /\ \E rg \in BOOLEAN, sync \in BOOLEAN :
          chunker' = NewChunker(args.n, args.n_chunks, rg, sync)
    /\ pc' = "chunk"
    /\ UNCHANGED <<args, result, ret>>

\* One iteration of the loop of Chunker.chunk.
ChunkStep ==
    /\ pc = "chunk"
    /\ Len(result) < chunker.n_chunks
    /\ LET c == Len(result) + 1
           lower == chunker.lower[c]
           upper == chunker.upper[c]
           block == RunBlock(args.adj, args.x, args.n, lower, upper)
       IN  IF SliceRaises(args.n, lower, upper)
           THEN /\ pc' = "raised"
                /\ ret' = [status |-> "raised", value |-> <<>>]
                /\ UNCHANGED result
           ELSE /\ result' = Append(result,
                                    IF chunker.requires_grad
                                    THEN Checkpoint(block) ELSE block)
                /\ UNCHANGED <<pc, ret>>
    /\ UNCHANGED <<args, chunker>>

\* result = torch.cat(result); return result
ChunkCat ==
    /\ pc = "chunk"
    /\ Len(result) = chunker.n_chunks
    /\ ret' = [status |-> "ok", value |-> Flatten(result)]
    /\ pc' = "done"
    /\ UNCHANGED <<args, chunker, result>>

NextChunk ==
    \/ AggregateUnchunked
    \/ AggregateChunked
    \/ UseChunker
    \/ ChunkStep
    \/ ChunkCat

SpecChunk == InitChunk /\ [][NextChunk]_vars

(***************************************************************************)
(* Claims on the chunking driver.                                          *)
(***************************************************************************)

\* C1: the (lower, upper) blocks of a Chunker start at 0, end at n, are
\* contiguous and satisfy 0 <= lower <= upper <= n, for every n and n_chunks.
C1_BlocksCoverRows ==
    chunker.built =>
        /\ chunker.lower[1] = 0
        /\ chunker.upper[chunker.n_chunks] = chunker.n
        /\ \A c \in 1..(chunker.n_chunks - 1) :
              chunker.upper[c] = chunker.lower[c + 1]
        /\ \A c \in 1..chunker.n_chunks :
              /\ 0 <= chunker.lower[c]
              /\ chunker.lower[c] <= chunker.upper[c]
              /\ chunker.upper[c] <= chunker.n

\* C2: the chunked call never raises and returns the rows the aggregation
\* function returns on the whole adjacency, in the same order.
C2_ChunkedEqualsUnchunked ==
    /\ pc # "raised"
    /\ pc = "done" =>
          /\ ret.status = "ok"
          /\ ret.value = SumAggregate(AllRows(args.adj, args.n), args.x, args.n)

(***************************************************************************)
(* The CPU top-k selector: _sparse_top_k and _select_k_idx_cpu.            *)
(*                                                                         *)
(* An edge list is a sequence of records [row, col, val]: A_indices[0],    *)
(* A_indices[1] and A_values at the same position.  Position p of the code *)
(* (0-based) is position p + 1 of the sequence.                            *)
(***************************************************************************)
TopN == 3             \* top-k selector: number of nodes n
TopMaxEdges == 3      \* top-k selector: longest edge list
TopMaxK == 2          \* top-k selector: k ranges over 1..TopMaxK

RECURSIVE ArgsortRec(_, _)
ArgsortRec(keys, S) ==
    IF S = {} THEN <<>>
    ELSE LET m == CHOOSE p \in S :
                    \A q \in S : \/ keys[p] < keys[q]
                                 \/ (keys[p] = keys[q] /\ p <= q)
         IN  <<m>> \o ArgsortRec(keys, S \ {m})

\* ndarray.argsort(): the positions in ascending order of their keys.  Equal
\* keys keep their input order (the insertion sort numba and numpy run on
\* short arrays).
Argsort(keys) == ArgsortRec(keys, DOMAIN keys)

\* s[:m]
Take(s, m) == SubSeq(s, 1, IF m < Len(s) THEN m ELSE Len(s))

\* torch_scatter.scatter_sum(torch.ones_like(A_values), A_indices[0], dim=0):
\* one count per row index 0..max(A_indices[0]); no entry beyond the largest
\* row index of the edge list.
EdgesPerRow(edges) ==
    LET rows == {edges[p].row : p \in DOMAIN edges}
        len  == IF rows = {} THEN 0
                ELSE (CHOOSE r \in rows : \A q \in rows : q <= r) + 1
    IN  [i \in 0..(len - 1) |->
            Cardinality({p \in DOMAIN edges : edges[p].row = i})]

\* torch.clamp(n_edges_per_row, max=k).long()
KPerRow(edges, k) ==
    LET cnt == EdgesPerRow(edges)
    IN  [i \in DOMAIN cnt |-> IF cnt[i] > k THEN k ELSE cnt[i]]

\* k_per_row[i] inside the numba routine: nopython code does no bounds check,
\* so a read beyond the end of k_per_row yields whatever the memory holds
\* (junk).
KOfRow(k_per_row, i, junk) == IF i \in DOMAIN k_per_row THEN k_per_row[i] ELSE junk

\* The body of the loop `for i in range(n)` of _select_k_idx_cpu for row i,
\* entered with row_idx_start = start.  row_idx and col_idx are the sorted
\* copies; values is the array the caller passed.
SelectRow(row_idx, col_idx, values, k_of_row, i, start) ==
    LET row_idx_end ==
            \* while row_idx_end < len(row_idx) and row_idx[row_idx_end] < i + 1
            start + Cardinality({p \in (start + 1)..Len(row_idx) :
                                   \A q \in (start + 1)..p : row_idx[q] < i + 1})
        slice == [p \in 1..(row_idx_end - start) |-> -values[start + p]]
        \* (-values[row_idx_start:row_idx_end]).argsort()[:k_of_row]
        curr_idx == Take(Argsort(slice), k_of_row)
    IN  [i |-> i,
         end |-> row_idx_end,
         selected |-> k_of_row > 0,
         \* new_idx: (i, col_idx[row_idx_start + curr_idx])
         cols |-> [s \in DOMAIN curr_idx |-> col_idx[start + curr_idx[s]]],
         \* valiue_idx: row_idx_start + curr_idx
         value_idx |-> [s \in DOMAIN curr_idx |-> start + curr_idx[s]]]

RECURSIVE SelectLoop(_, _, _, _, _, _, _, _)
SelectLoop(row_idx, col_idx, values, k_per_row, n, junk, i, start) ==
    IF i = n THEN <<>>
    ELSE LET r == SelectRow(row_idx, col_idx, values,
                            KOfRow(k_per_row, i, junk), i, start)
         IN  (IF r.selected THEN <<r>> ELSE <<>>)
             \o SelectLoop(row_idx, col_idx, values, k_per_row, n, junk,
                           i + 1, r.end)

\* _select_k_idx_cpu(row_idx, col_idx, values, k_per_row, n, method='top'): the
\* list of appended entries, one per row with k_of_row > 0.
\*   sort_idx = row_idx.argsort()
\*   row_idx = row_idx[sort_idx]; col_idx = col_idx[sort_idx]
\* values is not reordered.
SelectKIdxCpu(edges, k_per_row, n, junk) ==
    LET sort_idx == Argsort([p \in DOMAIN edges |-> edges[p].row])
        row_idx  == [p \in DOMAIN edges |-> edges[sort_idx[p]].row]
        col_idx  == [p \in DOMAIN edges |-> edges[sort_idx[p]].col]
        values   == [p \in DOMAIN edges |-> edges[p].val]
    IN  SelectLoop(row_idx, col_idx, values, k_per_row, n, junk, 0, 0)

\* The entry the selector appended for row i, if any.
SelectedOf(sel, i) == {q \in DOMAIN sel : sel[q].i = i}

\* A variant of the dense result whose index tensor starts as zeros((n, k))
\* instead of -ones((n, k)): padding slots then name node 0.
TopKDenseResultZeroPadded(edges, sel, n, k) ==
    [values |->
        [i \in 0..(n - 1) |->
            [s \in 1..k |->
                IF \E q \in SelectedOf(sel, i) : s \in DOMAIN sel[q].cols
                THEN LET q == CHOOSE q \in SelectedOf(sel, i) : TRUE
                     IN  edges[sel[q].value_idx[s]].val
                ELSE 0]],
     indices |->
        [i \in 0..(n - 1) |->
            [s \in 1..k |->
                IF \E q \in SelectedOf(sel, i) : s \in DOMAIN sel[q].cols
                THEN LET q == CHOOSE q \in SelectedOf(sel, i) : TRUE
                     IN  sel[q].cols[s]
                ELSE 0]]]

\* _sparse_top_k(A_indices, A_values, n, k, return_sparse=False) on the CPU:
\* values = zeros((n, k)), indices = -ones((n, k)), then the selected slots
\* are filled with A_values[value_idx] and new_idx[1].
TopKDenseResult(edges, sel, n, k) ==
    [values |->
        [i \in 0..(n - 1) |->
            [s \in 1..k |->
                IF \E q \in SelectedOf(sel, i) : s \in DOMAIN sel[q].cols
                THEN LET q == CHOOSE q \in SelectedOf(sel, i) : TRUE
                     IN  edges[sel[q].value_idx[s]].val
                ELSE 0]],
     indices |->
        [i \in 0..(n - 1) |->
            [s \in 1..k |->
                IF \E q \in SelectedOf(sel, i) : s \in DOMAIN sel[q].cols
                THEN LET q == CHOOSE q \in SelectedOf(sel, i) : TRUE
                     IN  sel[q].cols[s]
                ELSE -1]]]

\* _sparse_top_k(..., return_sparse=True) on the CPU:
\* torch.sparse.FloatTensor(new_idx, A_values[value_idx]) as an edge list.
TopKSparseResult(edges, sel) ==
    Flatten([q \in DOMAIN sel |->
                [s \in DOMAIN sel[q].cols |->
                    [row |-> sel[q].i, col |-> sel[q].cols[s],
                     val |-> edges[sel[q].value_idx[s]].val]]])

\* _sparse_top_k on the CPU.  np.hstack of an empty list raises ValueError.
SparseTopK(edges, n, k, return_sparse, junk) ==
    LET sel == SelectKIdxCpu(edges, KPerRow(edges, k), n, junk)
    IN  IF sel = <<>> THEN [status |-> "raised", value |-> <<>>]
        ELSE [status |-> "ok",
              value |-> IF return_sparse THEN TopKSparseResult(edges, sel)
                        ELSE TopKDenseResult(edges, sel, n, k)]

Pairs(n) == (0..(n - 1)) \X (0..(n - 1))

RECURSIVE EdgeLists(_, _)
\* the edge lists of at most m entries over distinct (row, col) pairs, in any
\* order
EdgeLists(n, m) ==
    IF m = 0 THEN {<<>>}
    ELSE LET shorter == EdgeLists(n, m - 1)
         IN  shorter \cup
             {Append(l, [row |-> p[1], col |-> p[2], val |-> w]) :
                 <<l, p, w>> \in
                    {<<l, p, w>> \in shorter \X Pairs(n) \X Weights :
                        /\ Len(l) = m - 1
                        /\ \A q \in DOMAIN l : <<l[q].row, l[q].col>> # p}}

NoTopK == [dense |-> NoRet, sparse |-> NoRet]

InitTopK ==
    /\ pc = "ready"
    /\ args \in [n : {TopN}, k : 1..TopMaxK, edges : EdgeLists(TopN, TopMaxEdges)]
    /\ chunker = NoChunker
    /\ result = <<>>
    /\ ret = NoTopK

\* _sparse_top_k(A_indices, A_values, n, k, return_sparse=False)
CallTopKDense ==
    /\ pc = "ready"
    /\ ret.dense.status = "none"
    /\ \E junk \in {0, 1} :
          ret' = [ret EXCEPT !.dense =
                      SparseTopK(args.edges, args.n, args.k, FALSE, junk)]
    /\ UNCHANGED <<pc, args, chunker, result>>

\* _sparse_top_k(A_indices, A_values, n, k, return_sparse=True)
CallTopKSparse ==
    /\ pc = "ready"
    /\ ret.sparse.status = "none"
    /\ \E junk \in {0, 1} :
          ret' = [ret EXCEPT !.sparse =
                      SparseTopK(args.edges, args.n, args.k, TRUE, junk)]
    /\ UNCHANGED <<pc, args, chunker, result>>

NextTopK ==
    \/ CallTopKDense
    \/ CallTopKSparse

SpecTopK == InitTopK /\ [][NextTopK]_vars

(***************************************************************************)
(* Claims on the top-k selector.                                           *)
(***************************************************************************)
\* the stored entries of row i, and its out-degree
StoredOf(edges, i) == {p \in DOMAIN edges : edges[p].row = i}

OutDegree(edges, i) == Cardinality(StoredOf(edges, i))

MinKDeg(edges, i, k) == IF OutDegree(edges, i) < k THEN OutDegree(edges, i) ELSE k

\* the edge list is in row-major order (rows ascending)
RowSorted(edges) ==
    \A p \in DOMAIN edges, q \in DOMAIN edges : p < q => edges[p].row <= edges[q].row

\* C3: in the dense (values, indices) result every row i has exactly
\* min(k, out-degree(i)) selected entries in its first slots, their values are
\* in non-increasing order, and every selected value is >= every stored value
\* of row i that was not selected.
C3_TopKSelectsLargest ==
    ret.dense.status = "ok" =>
        \A i \in 0..(args.n - 1) :
            LET m   == MinKDeg(args.edges, i, args.k)
                val == ret.dense.value.values[i]
                idx == ret.dense.value.indices[i]
            IN  /\ \A s \in 1..args.k : (idx[s] # -1) <=> (s <= m)
                /\ \A s \in 1..(m - 1) : val[s] >= val[s + 1]
                /\ \A s \in 1..m :
                      \A p \in StoredOf(args.edges, i) :
                          (\A t \in 1..m : idx[t] # args.edges[p].col)
                              => val[s] >= args.edges[p].val

\* C4: every non-sentinel (index, value) slot of row i is a stored entry of the
\* input: the edge (i, index) with that weight.
C4_SlotsAreStoredEdges ==
    ret.dense.status = "ok" =>
        \A i \in 0..(args.n - 1) : \A s \in 1..args.k :
            ret.dense.value.indices[i][s] # -1 =>
                \E p \in DOMAIN args.edges :
                    /\ args.edges[p].row = i
                    /\ args.edges[p].col = ret.dense.value.indices[i][s]
                    /\ args.edges[p].val = ret.dense.value.values[i][s]

\* the non-sentinel slots of the dense result, as (row, col, val) entries
DenseSlots(d, n, k) ==
    {[row |-> i, col |-> d.indices[i][s], val |-> d.values[i][s]] :
        <<i, s>> \in {<<i, s>> \in (0..(n - 1)) \X (1..k) : d.indices[i][s] # -1}}

\* C5: every slot of row i beyond the first min(k, out-degree(i)) holds index -1
\* and value 0, no selected slot holds -1, and the edge list returned with
\* return_sparse=True holds exactly the non-sentinel slots of the dense result.
C5_PaddingIsSentinel ==
    /\ ret.dense.status = "ok" =>
          \A i \in 0..(args.n - 1) : \A s \in 1..args.k :
              IF s > MinKDeg(args.edges, i, args.k)
              THEN /\ ret.dense.value.indices[i][s] = -1
                   /\ ret.dense.value.values[i][s] = 0
              ELSE ret.dense.value.indices[i][s] # -1
    /\ (ret.dense.status = "ok" /\ ret.sparse.status = "ok") =>
          LET slots == DenseSlots(ret.dense.value, args.n, args.k)
          IN  /\ {ret.sparse.value[q] : q \in DOMAIN ret.sparse.value} = slots
              /\ Len(ret.sparse.value) = Cardinality(slots)

\* C5 witness: both forms were returned for an unordered edge list with a row
\* shorter than k (padded), a row without entries and a row cut to k entries.
C5_Witness ==
    /\ ret.dense.status = "ok"
    /\ ret.sparse.status = "ok"
    /\ ~RowSorted(args.edges)
    /\ \E i \in 0..(args.n - 1) :
          /\ OutDegree(args.edges, i) > 0
          /\ OutDegree(args.edges, i) < args.k
    /\ \E i \in 0..(args.n - 1) : OutDegree(args.edges, i) = 0
    /\ \E i \in 0..(args.n - 1) : ret.dense.value.indices[i][args.k] # -1

(***************************************************************************)
(* Exact arithmetic for the soft aggregations.                             *)
(*                                                                         *)
(* A rational is a record [num, den] in lowest terms with den > 0; the     *)
(* record with den = 0 is NaN, which every operation propagates.           *)
(*                                                                         *)
(* The temperature is given by its base b >= 2: temperature = 1 / ln(b),   *)
(* so that exp(-d / temperature) = b^(-d) is rational for an integer d.    *)
(* b = 2 is a temperature above 1 and b = 3 one below 1.                   *)
(***************************************************************************)
FMAX == 1000000000    \* stands for torch.finfo(dtype).max: above every finite score

RECURSIVE GCD(_, _)
GCD(a, b) == IF b = 0 THEN a ELSE GCD(b, a % b)

NaN == [num |-> 0, den |-> 0]

IsNaN(q) == q.den = 0

Rat(num, den) ==
    IF den = 0 THEN NaN
    ELSE LET g == GCD(Abs(num), Abs(den))
             sgn == IF den < 0 THEN -1 ELSE 1
         IN  [num |-> sgn * (num \div g), den |-> sgn * (den \div g)]

RatInt(a) == [num |-> a, den |-> 1]

RatAdd(p, q) ==
    IF IsNaN(p) \/ IsNaN(q) THEN NaN
    ELSE Rat(p.num * q.den + q.num * p.den, p.den * q.den)

RatMul(p, q) ==
    IF IsNaN(p) \/ IsNaN(q) THEN NaN ELSE Rat(p.num * q.num, p.den * q.den)

\* p / (q + eps) for q >= 0 and eps = 1e-10: q + eps rounds to q for every
\* nonzero q of the model, and 0 / (0 + eps) = 0.
RatDivEps(p, q) ==
    IF IsNaN(p) \/ IsNaN(q) THEN NaN
    ELSE IF q.num = 0 THEN Rat(0, 1)
    ELSE Rat(p.num * q.den, p.den * q.num)

RECURSIVE RatSumTo(_, _)
\* f[1] + ... + f[m] for a sequence of rationals
RatSumTo(f, m) == IF m = 0 THEN RatInt(0) ELSE RatAdd(RatSumTo(f, m - 1), f[m])

RECURSIVE Pow(_, _)
Pow(b, e) == IF e = 0 THEN 1 ELSE b * Pow(b, e - 1)

\* A variant of the softmax that is a hard argmin: the whole mass on the
\* first slot of least score.
SoftmaxHard(d, b) ==
    LET first == CHOOSE a \in DOMAIN d :
                    /\ \A o \in DOMAIN d : d[a] <= d[o]
                    /\ \A o \in DOMAIN d : d[o] = d[a] => a <= o
    IN  [a \in DOMAIN d |-> IF a = first THEN RatInt(1) ELSE RatInt(0)]

\* F.softmax(-d / temperature, dim=-1) of one row d of scores, each finite or
\* FMAX.  softmax subtracts the largest input, here -min(d) / temperature.
\*  - some score is finite: a slot at FMAX underflows to exactly 0;
\*  - every score is FMAX: -FMAX / temperature is -inf for a temperature
\*    below 1 (every slot NaN) and finite for one of at least 1 (uniform).
Softmax(d, b) ==
    LET fin == {a \in DOMAIN d : d[a] # FMAX}
    IN  IF fin = {}
        THEN [a \in DOMAIN d |-> IF b > 2 THEN NaN ELSE Rat(1, Len(d))]
        ELSE LET top == CHOOSE m \in {d[a] : a \in fin} :
                            \A a \in fin : d[a] <= m
                 p   == [a \in DOMAIN d |->
                            IF d[a] = FMAX THEN 0 ELSE Pow(b, top - d[a])]
                 z   == SumSeq(p)
             IN  [a \in DOMAIN d |-> Rat(p[a], z)]

(***************************************************************************)
(* Distances.                                                              *)
(***************************************************************************)
\* the integer square root; exact on the perfect squares the inputs produce
ISqrt(s) == CHOOSE r \in 0..s : r * r <= s /\ (r + 1) * (r + 1) > s

\* ||x[a] - x[b]||_2
Norm2(x, a, b) ==
    ISqrt(SumSeq([dd \in DOMAIN x[a] |-> (x[a][dd] - x[b][dd]) * (x[a][dd] - x[b][dd])]))

\* _distance_matrix(x)[a][b] = sqrt(|x_a|^2 + |x_b|^2 - 2 x_a.x_b| + eps): the
\* Euclidean distance, the "safe sqrt" offset being below the resolution of
\* the integer scores.
DistanceMatrix(x, a, b) ==
    LET na == SumSeq([dd \in DOMAIN x[a] |-> x[a][dd] * x[a][dd]])
        nb == SumSeq([dd \in DOMAIN x[b] |-> x[b][dd] * x[b][dd]])
        ab == SumSeq([dd \in DOMAIN x[a] |-> x[a][dd] * x[b][dd]])
    IN  ISqrt(Abs(na + nb - 2 * ab))

\* partial_distance_matrix(x, partial_idx)[i][a][b] for slots a, b of row i:
\* 0 when either index is -1; else the pair is ordered (smaller index first),
\* coded as idx_row * n + idx_column, and the distance is taken between the
\* nodes code // n and code % n.
PartialDistance(x, n, idx, i, a, b) ==
    IF idx[i][a] = -1 \/ idx[i][b] = -1 THEN 0
    ELSE LET lo   == IF idx[i][a] < idx[i][b] THEN idx[i][a] ELSE idx[i][b]
             hi   == IF idx[i][a] < idx[i][b] THEN idx[i][b] ELSE idx[i][a]
             code == lo * n + hi
         IN  Norm2(x, code \div n, code % n)

(***************************************************************************)
(* Soft k-medoid: soft_weighted_medoid_k_neighborhood and its dense path.  *)
(*                                                                         *)
(* The adjacency A is a function row -> (column -> weight), 0 for no edge. *)
(* An output is a function row -> (dimension -> rational).                 *)
(***************************************************************************)
DefaultThreshold == 5000    \* threshold_for_dense_if_cpu: int = 5_000

RowSum(A, i, n) == SumTo(A[i], n)

\* torch.topk(A_dense, k=k, dim=1) for row i: the columns of the k largest
\* entries, largest first, entries of equal weight in ascending column order.
\* Zero entries fill the slots of a row with fewer than k nonzero entries.
TorchTopK(A, i, n, k) == Take(Argsort([j \in 0..(n - 1) |-> -A[i][j]]), k)

\* A variant of the final product without the factor row_sum: weights @ x.
CombineUnscaled(row_sum, weights, node, x) ==
    [dd \in DOMAIN x[0] |->
        RatSumTo([a \in DOMAIN weights |->
                     RatMul(weights[a], RatInt(x[node[a]][dd]))],
                 Len(weights))]

\* row_sum * (weights @ x) for one row: weights is a sequence of rationals,
\* node[a] the node that slot a stands for.
Combine(row_sum, weights, node, x) ==
    [dd \in DOMAIN x[0] |->
        RatMul(RatInt(row_sum),
               RatSumTo([a \in DOMAIN weights |->
                            RatMul(weights[a], RatInt(x[node[a]][dd]))],
                        Len(weights)))]

\* dense_cpu_soft_weighted_medoid_k_neighborhood, row i
DenseSoftKRow(A, x, n, k, b, with_weight_correction, i) ==
    LET topk_a_idx == TorchTopK(A, i, n, k)
        topk_a == [s \in 1..k |-> A[i][topk_a_idx[s]]]
        \* (topk_a[:, None, :] * l2[topk_l2_idx, topk_l2_idx.transpose(1, 2)]).sum(-1)
        distances_k ==
            [a \in 1..k |->
                SumSeq([s \in 1..k |->
                    topk_a[s] * DistanceMatrix(x, topk_a_idx[s], topk_a_idx[a])])]
        \* the line distances_k[topk_a == 0] = max is commented out
        soft == Softmax(distances_k, b)
        \* topk_weights[..., topk_a_idx] *= topk_a
        scaled == [a \in 1..k |-> RatMul(soft[a], RatInt(topk_a[a]))]
        \* topk_weights /= topk_weights.sum(-1)[:, None] + eps
        topk_weights ==
            IF with_weight_correction
            THEN [a \in 1..k |-> RatDivEps(scaled[a], RatSumTo(scaled, k))]
            ELSE soft
    IN  [weights |-> topk_weights, node |-> topk_a_idx,
         out |-> Combine(RowSum(A, i, n), topk_weights, topk_a_idx, x)]

DenseSoftK(A, x, n, k, b, with_weight_correction) ==
    [status |-> "ok",
     value |-> [i \in 0..(n - 1) |->
                   DenseSoftKRow(A, x, n, k, b, with_weight_correction, i)]]

\* A.coo() of a SparseTensor built from the dense matrix: the nonzero entries
\* in row-major order.
Coo(A, n) ==
    Flatten([r \in 1..n |->
                SelectSeq([c \in 1..n |->
                              [row |-> r - 1, col |-> c - 1, val |-> A[r - 1][c - 1]]],
                          LAMBDA e : e.val # 0)])

\* A variant of the sparse path without the placeholder step: the edge list
\* stays as A.coo() gave it.
WithoutMissingRows(edges, n) == edges

\* The placeholder step: for every row index without an entry, the entry
\* (row, 0, 0) is appended at the end of the edge list
\* (torch.cat([A_rows, missing_row_idx]) ...).
WithMissingRows(edges, n) ==
    edges \o SelectSeq([r \in 1..n |-> [row |-> r - 1, col |-> 0, val |-> 0]],
                       LAMBDA e : \A p \in DOMAIN edges : edges[p].row # e.row)

\* torch_scatter.scatter_sum(A_values, A_indices[0], dim=-1)[i]
ScatterRowSum(edges, i) ==
    SumSeq([p \in DOMAIN edges |-> IF edges[p].row = i THEN edges[p].val ELSE 0])

\* distances_top_k of row i on the sparse path:
\* (top_k_weights[:, None, :] * distances_top_k).sum(-1), then
\* distances_top_k[top_k_idx == -1] = max
DistancesTopK(top, x, n, k, i) ==
    [a \in 1..k |->
        IF top.indices[i][a] = -1 THEN FMAX
        ELSE SumSeq([s \in 1..k |->
                top.values[i][s] * PartialDistance(x, n, top.indices, i, a, s)])]

\* the sparse path of soft_weighted_medoid_k_neighborhood, row i, given the
\* dense result (top_k_weights, top_k_idx) of _sparse_top_k
SparseSoftKRow(edges, top, x, n, k, b, with_weight_correction, i) ==
    LET top_k_weights == top.values[i]
        top_k_idx == top.indices[i]
        distances_top_k == DistancesTopK(top, x, n, k, i)
        soft == Softmax(distances_top_k, b)
        scaled == [a \in 1..k |-> RatMul(soft[a], RatInt(top_k_weights[a]))]
        reliable_adj_values ==
            IF with_weight_correction
            THEN [a \in 1..k |-> RatDivEps(scaled[a], RatSumTo(scaled, k))]
            ELSE soft
        \* top_k_mask: the slots whose index is not -1 enter the product
        kept == SelectSeq([a \in 1..k |-> a], LAMBDA a : top_k_idx[a] # -1)
        weights == [q \in DOMAIN kept |-> reliable_adj_values[kept[q]]]
        node == [q \in DOMAIN kept |-> top_k_idx[kept[q]]]
    IN  [weights |-> weights, node |-> node,
         out |-> Combine(ScatterRowSum(edges, i), weights, node, x)]

SparseSoftK(A, x, n, k, b, with_weight_correction) ==
    LET edges == WithMissingRows(Coo(A, n), n)
        \* every row has an entry, so k_per_row is read within its bounds
        top == SparseTopK(edges, n, k, FALSE, 0)
    IN  IF top.status # "ok" THEN top
        ELSE [status |-> "ok",
              value |-> [i \in 0..(n - 1) |->
                            SparseSoftKRow(edges, top.value, x, n, k, b,
                                           with_weight_correction, i)]]

\* soft_weighted_medoid, row i: the softmax runs over all n nodes; a node c
\* with A[i][c] = 0 has its n partial distances set to max, whose sum is
\* replaced by max.
SoftMedoidRow(A, x, n, b, i) ==
    LET distances ==
            [c \in 1..n |->
                IF A[i][c - 1] = 0 THEN FMAX
                ELSE SumTo([j \in 0..(n - 1) |->
                               A[i][j] * DistanceMatrix(x, c - 1, j)], n)]
        soft == Softmax(distances, b)
        node == [c \in 1..n |-> c - 1]
    IN  [weights |-> soft, node |-> node,
         out |-> Combine(RowSum(A, i, n), soft, node, x)]

SoftWeightedMedoid(A, x, n, b) ==
    [status |-> "ok",
     value |-> [i \in 0..(n - 1) |-> SoftMedoidRow(A, x, n, b, i)]]

\* A variant of soft_weighted_medoid_k_neighborhood whose k > n branch never
\* raises: it returns soft_weighted_medoid for both values of
\* with_weight_correction.
SoftWeightedMedoidKNeighborhoodNoRaise(A, x, n, k, b, with_weight_correction, threshold) ==
    IF k > n
    THEN SoftWeightedMedoid(A, x, n, b)
    ELSE IF n < threshold
         THEN DenseSoftK(A, x, n, k, b, with_weight_correction)
         ELSE SparseSoftK(A, x, n, k, b, with_weight_correction)

\* soft_weighted_medoid_k_neighborhood(A, x, k, temperature,
\*     with_weight_correction, threshold_for_dense_if_cpu) on the CPU
SoftWeightedMedoidKNeighborhood(A, x, n, k, b, with_weight_correction, threshold) ==
    IF k > n
    THEN IF with_weight_correction
         THEN [status |-> "NotImplementedError", value |-> <<>>]
         ELSE SoftWeightedMedoid(A, x, n, b)
    ELSE IF n < threshold
         THEN DenseSoftK(A, x, n, k, b, with_weight_correction)
         ELSE SparseSoftK(A, x, n, k, b, with_weight_correction)

SoftN == 3            \* soft k-medoid: number of nodes n
SoftMaxNnz == 2       \* soft k-medoid: most nonzero entries of the adjacency

TempBases == {2, 3}   \* temperatures 1/ln(2) > 1 and 1/ln(3) < 1

\* the n by n adjacencies with at most m nonzero entries, drawn from Weights
Adjs(n, m) ==
    UNION {{[i \in 0..(n - 1) |->
                [j \in 0..(n - 1) |-> IF <<i, j>> \in S THEN w[<<i, j>>] ELSE 0]] :
            w \in [S -> Weights]} :
           S \in {T \in SUBSET Pairs(n) : Cardinality(T) <= m}}

\* scalar features 0 or 1 (d = 1)
SoftFeatures(n) == [0..(n - 1) -> {<<0>>, <<1>>}]

InitSoftK ==
    /\ pc = "ready"
    /\ args \in [n : {SoftN}, A : Adjs(SoftN, SoftMaxNnz), x : SoftFeatures(SoftN),
                 k : 1..SoftN, temperature : TempBases,
                 with_weight_correction : BOOLEAN]
    /\ chunker = NoChunker
    /\ result = <<>>
    /\ ret = NoTopK

\* soft_weighted_medoid_k_neighborhood(A, x, k, temperature,
\*     with_weight_correction): n is below the default threshold, dense path
CallSoftKDense ==
    /\ pc = "ready"
    /\ ret' = [ret EXCEPT !.dense =
                  SoftWeightedMedoidKNeighborhood(args.A, args.x, args.n, args.k,
                      args.temperature, args.with_weight_correction,
                      DefaultThreshold)]
    /\ pc' = "again"
    /\ UNCHANGED <<args, chunker, result>>

\* then the same call with threshold_for_dense_if_cpu=0: sparse path
CallSoftKSparse ==
    /\ pc = "again"
    /\ ret' = [ret EXCEPT !.sparse =
                  SoftWeightedMedoidKNeighborhood(args.A, args.x, args.n, args.k,
                      args.temperature, args.with_weight_correction, 0)]
    /\ pc' = "done"
    /\ UNCHANGED <<args, chunker, result>>

NextSoftK ==
    \/ CallSoftKDense
    \/ CallSoftKSparse

SpecSoftK == InitSoftK /\ [][NextSoftK]_vars

(***************************************************************************)
(* Claims on soft k-medoid.                                                *)
(***************************************************************************)
Nnz(A, i, n) == Cardinality({j \in 0..(n - 1) : A[i][j] # 0})

ZeroVector(v) == \A dd \in DOMAIN v : v[dd] = RatInt(0)

\* the adjacency with a self loop of weight 1 put on every row without
\* entries: no row is disconnected, every other row is unchanged
Reconnected(A, n) ==
    [i \in 0..(n - 1) |->
        [j \in 0..(n - 1) |-> IF Nnz(A, i, n) = 0 /\ j = i THEN 1 ELSE A[i][j]]]

\* C6: for k <= n the dense path and the sparse path return the same output
\* row for every row, whether or not some rows have no outgoing edge.
C6_DenseEqualsSparse ==
    (pc = "done" /\ args.k <= args.n) =>
        /\ ret.dense.status = "ok"
        /\ ret.sparse.status = "ok"
        /\ \A i \in 0..(args.n - 1) :
              ret.dense.value[i].out = ret.sparse.value[i].out

\* C7: when some row has zero out-degree, both paths return without raising,
\* the rows without entries are zero vectors, and every connected row has the
\* value the same path gives it when no row is disconnected.
C7_DisconnectedRowsAreInert ==
    (/\ pc = "done"
     /\ args.k <= args.n
     /\ \E i \in 0..(args.n - 1) : Nnz(args.A, i, args.n) = 0) =>
        /\ ret.dense.status = "ok"
        /\ ret.sparse.status = "ok"
        /\ LET B == Reconnected(args.A, args.n)
               dense == DenseSoftK(B, args.x, args.n, args.k, args.temperature,
                                   args.with_weight_correction)
               sparse == SparseSoftK(B, args.x, args.n, args.k, args.temperature,
                                     args.with_weight_correction)
           IN  \A i \in 0..(args.n - 1) :
                  IF Nnz(args.A, i, args.n) = 0
                  THEN /\ ZeroVector(ret.dense.value[i].out)
                       /\ ZeroVector(ret.sparse.value[i].out)
                  ELSE /\ ret.dense.value[i].out = dense.value[i].out
                       /\ ret.sparse.value[i].out = sparse.value[i].out

\* the slots of row i of a result r that stand for a node without an edge
\* from i carry no weight into output row i
NoWeightOnNonNeighbors(r, A, n, i) ==
    \A a \in DOMAIN r.value[i].node :
        A[i][r.value[i].node[a]] = 0 =>
            RatMul(RatInt(RowSum(A, i, n)), r.value[i].weights[a]) = RatInt(0)

\* C8: on both paths and for both values of with_weight_correction, in a row
\* with fewer than k nonzero entries a node j with A[i][j] = 0 that fills a
\* top-k slot gets no combination weight in output row i.
C8_FillersCarryNoWeight ==
    (pc = "done" /\ args.k <= args.n) =>
        \A i \in 0..(args.n - 1) :
            Nnz(args.A, i, args.n) < args.k =>
                /\ ret.dense.status = "ok"
                    => NoWeightOnNonNeighbors(ret.dense, args.A, args.n, i)
                /\ ret.sparse.status = "ok"
                    => NoWeightOnNonNeighbors(ret.sparse, args.A, args.n, i)

(***************************************************************************)
(* The hard selections: weighted_medoid, weighted_medoid_k_neighborhood    *)
(* and weighted_dimwise_median_cpu.                                        *)
(*                                                                         *)
(* A score is a pair <<main, off>>: main is the weighted sum of Euclidean  *)
(* distances and off the weighted number of zero distances in it, each of  *)
(* which _distance_matrix returns as sqrt(eps) instead of 0.  Scores are   *)
(* ordered by main, then by off.  An output is a function row ->           *)
(* (dimension -> integer).                                                 *)
(***************************************************************************)
\* the number of sqrt(eps) the "safe sqrt" of _distance_matrix adds to the
\* distance of a and b
SafeSqrtOffset(x, a, b) == IF Norm2(x, a, b) = 0 THEN 1 ELSE 0

ScoreMax == <<FMAX, 0>>

ScoreLess(s, t) == s[1] < t[1] \/ (s[1] = t[1] /\ s[2] < t[2])

\* tensor.argmin(-1): the first position holding a minimal score
Argmin(scores) ==
    CHOOSE a \in DOMAIN scores :
        /\ \A c \in DOMAIN scores : ~ScoreLess(scores[c], scores[a])
        /\ \A c \in DOMAIN scores : c < a => ScoreLess(scores[a], scores[c])

\* A variant of weighted_medoid, row i, that returns the weighted sum of the
\* neighbours' features instead of row_sum times the features of one node.
WeightedMedoidRowAsSum(A, x, n, i) ==
    [selected |-> 0,
     out |-> [dd \in DOMAIN x[0] |->
                 SumTo([j \in 0..(n - 1) |-> A[i][j] * x[j][dd]], n)]]

\* A variant of weighted_medoid, row i, without distances[A_cpu_dense == 0] =
\* max: nodes that are not neighbours of i stay candidates.
WeightedMedoidRowUnmasked(A, x, n, i) ==
    LET distances ==
            [c \in 1..n |->
                <<SumTo([j \in 0..(n - 1) |->
                            A[i][j] * DistanceMatrix(x, c - 1, j)], n),
                  SumTo([j \in 0..(n - 1) |->
                            A[i][j] * SafeSqrtOffset(x, c - 1, j)], n)>>]
        selected == Argmin(distances) - 1
    IN  [selected |-> selected,
         out |-> [dd \in DOMAIN x[0] |-> RowSum(A, i, n) * x[selected][dd]]]

\* weighted_medoid, row i.  distances[A_cpu_dense == 0] = max sets the n
\* entries of candidate c to max when A[i][c] = 0; their sum is not finite
\* and is replaced by max.
WeightedMedoidRow(A, x, n, i) ==
    LET distances ==
            [c \in 1..n |->
                IF A[i][c - 1] = 0 THEN ScoreMax
                ELSE <<SumTo([j \in 0..(n - 1) |->
                                 A[i][j] * DistanceMatrix(x, c - 1, j)], n),
                       SumTo([j \in 0..(n - 1) |->
                                 A[i][j] * SafeSqrtOffset(x, c - 1, j)], n)>>]
        selected == Argmin(distances) - 1
    IN  [selected |-> selected,
         out |-> [dd \in DOMAIN x[0] |-> RowSum(A, i, n) * x[selected][dd]]]

WeightedMedoid(A, x, n) ==
    [status |-> "ok", value |-> [i \in 0..(n - 1) |-> WeightedMedoidRow(A, x, n, i)]]

\* A variant of weighted_medoid_k_neighborhood, row i, that takes the slot of
\* the least score for the node itself (distances_k.argmin(-1) without the
\* lookup in topk_a_idx).
WeightedMedoidKRowSlotAsNode(A, x, n, k, i) ==
    LET topk_a_idx == TorchTopK(A, i, n, k)
        topk_a == [s \in 1..k |-> A[i][topk_a_idx[s]]]
        distances_k ==
            [a \in 1..k |->
                IF topk_a[a] = 0 THEN ScoreMax
                ELSE <<SumSeq([s \in 1..k |->
                          topk_a[s] * DistanceMatrix(x, topk_a_idx[s], topk_a_idx[a])]),
                       SumSeq([s \in 1..k |->
                          topk_a[s] * SafeSqrtOffset(x, topk_a_idx[s], topk_a_idx[a])])>>]
        selected == Argmin(distances_k) - 1
    IN  [selected |-> selected,
         out |-> [dd \in DOMAIN x[0] |-> RowSum(A, i, n) * x[selected][dd]]]

\* weighted_medoid_k_neighborhood for k <= N, row i
WeightedMedoidKRow(A, x, n, k, i) ==
    LET topk_a_idx == TorchTopK(A, i, n, k)
        topk_a == [s \in 1..k |-> A[i][topk_a_idx[s]]]
        \* distances_k[topk_a == 0] = max
        distances_k ==
            [a \in 1..k |->
                IF topk_a[a] = 0 THEN ScoreMax
                ELSE <<SumSeq([s \in 1..k |->
                          topk_a[s] * DistanceMatrix(x, topk_a_idx[s], topk_a_idx[a])]),
                       SumSeq([s \in 1..k |->
                          topk_a[s] * SafeSqrtOffset(x, topk_a_idx[s], topk_a_idx[a])])>>]
        \* topk_a_idx[torch.arange(N), distances_k.argmin(-1)]
        selected == topk_a_idx[Argmin(distances_k)]
    IN  [selected |-> selected,
         out |-> [dd \in DOMAIN x[0] |-> RowSum(A, i, n) * x[selected][dd]]]

\* weighted_medoid_k_neighborhood(A, x, k)
WeightedMedoidKNeighborhood(A, x, n, k) ==
    IF k > n THEN WeightedMedoid(A, x, n)
    ELSE [status |-> "ok",
          value |-> [i \in 0..(n - 1) |-> WeightedMedoidKRow(A, x, n, k, i)]]

\* torch.sort(x, dim=0)[1][:, dd]: the nodes in ascending order of feature dd
\* (nodes of equal value in ascending node order), as a sequence
IndexX(x, n, dd) == Argsort([j \in 0..(n - 1) |-> x[j][dd]])

\* A variant of weighted_dimwise_median_cpu, row i and dimension dd, that
\* compares the cumulative weights with weight_sum_per_node instead of
\* weight_sum_per_node / 2.
DimMedianEntryNoHalving(A, x, n, i, dd) ==
    LET index_x == IndexX(x, n, dd)
        cum_sorted_weights ==
            [r \in 1..n |-> SumSeq([q \in 1..r |-> A[i][index_x[q]]])]
        weight_sum_per_node ==
            CHOOSE m \in {cum_sorted_weights[r] : r \in 1..n} :
                \A r \in 1..n : cum_sorted_weights[r] <= m
        median_element ==
            Cardinality({r \in 1..n : cum_sorted_weights[r] < weight_sum_per_node})
        selected == index_x[median_element + 1]
    IN  [selected |-> selected, out |-> weight_sum_per_node * x[selected][dd]]

\* weighted_dimwise_median_cpu, row i and dimension dd
DimMedianEntry(A, x, n, i, dd) ==
    LET index_x == IndexX(x, n, dd)
        \* A_cpu_dense[matrix_index_for_each_node, index_x].cumsum(1)
        cum_sorted_weights ==
            [r \in 1..n |-> SumSeq([q \in 1..r |-> A[i][index_x[q]]])]
        \* cum_sorted_weights.max(1)[0]
        weight_sum_per_node ==
            CHOOSE m \in {cum_sorted_weights[r] : r \in 1..n} :
                \A r \in 1..n : cum_sorted_weights[r] <= m
        \* (cum_sorted_weights < weight_sum_per_node / 2).sum(1)
        median_element ==
            Cardinality({r \in 1..n : 2 * cum_sorted_weights[r] < weight_sum_per_node})
        selected == index_x[median_element + 1]
    IN  [selected |-> selected, out |-> weight_sum_per_node * x[selected][dd]]

WeightedDimwiseMedianCpu(A, x, n) ==
    [status |-> "ok",
     value |-> [i \in 0..(n - 1) |->
                  [selected |-> [dd \in DOMAIN x[0] |->
                                    DimMedianEntry(A, x, n, i, dd).selected],
                   out |-> [dd \in DOMAIN x[0] |->
                               DimMedianEntry(A, x, n, i, dd).out]]]]

MedN == 3             \* hard selections: number of nodes n
MedMaxNnz == 3        \* hard selections: most nonzero entries of the adjacency

\* feature vectors with d = 2 whose pairwise Euclidean distances are integers
Points == {<<0, 0>>, <<3, 0>>, <<0, 4>>, <<3, 4>>}

MedFeatures(n) == {x \in [0..(n - 1) -> Points] : x[0] = <<0, 0>>}

NoMedoid == [medoid |-> NoRet, dimmedian |-> NoRet, k_medoid |-> NoRet, k |-> 0]

InitMedoid ==
    /\ pc = "ready"
    /\ args \in [n : {MedN}, A : Adjs(MedN, MedMaxNnz), x : MedFeatures(MedN)]
    /\ chunker = NoChunker
    /\ result = <<>>
    /\ ret = NoMedoid

\* weighted_medoid(A, x)
CallWeightedMedoid ==
    /\ pc = "ready"
    /\ ret' = [ret EXCEPT !.medoid = WeightedMedoid(args.A, args.x, args.n)]
    /\ pc' = "medoid"
    /\ UNCHANGED <<args, chunker, result>>

\* weighted_dimwise_median_cpu(A, x)
CallDimMedian ==
    /\ pc = "medoid"
    /\ ret' = [ret EXCEPT !.dimmedian =
                  WeightedDimwiseMedianCpu(args.A, args.x, args.n)]
    /\ pc' = "dimmedian"
    /\ UNCHANGED <<args, chunker, result>>

\* weighted_medoid_k_neighborhood(A, x, k) for some k, k > n included
CallWeightedMedoidK ==
    /\ pc = "dimmedian"
    /\ \E k \in 1..(args.n + 1) :
          ret' = [ret EXCEPT !.k_medoid =
                      WeightedMedoidKNeighborhood(args.A, args.x, args.n, k),
                  !.k = k]
    /\ pc' = "done"
    /\ UNCHANGED <<args, chunker, result>>

NextMedoid ==
    \/ CallWeightedMedoid
    \/ CallDimMedian
    \/ CallWeightedMedoidK

SpecMedoid == InitMedoid /\ [][NextMedoid]_vars

(***************************************************************************)
(* Claims on the hard selections.                                          *)
(***************************************************************************)
\* v is row_sum(A, i) times the feature vector of one node
ScaledNode(v, A, x, n, i) ==
    \E c \in 0..(n - 1) : \A dd \in DOMAIN v : v[dd] = RowSum(A, i, n) * x[c][dd]

\* every entry of v is row_sum(A, i) times that feature of some node
ScaledNodePerDim(v, A, x, n, i) ==
    \A dd \in DOMAIN v : \E c \in 0..(n - 1) : v[dd] = RowSum(A, i, n) * x[c][dd]

IsZero(v) == \A dd \in DOMAIN v : v[dd] = 0

\* C9: output row i of weighted_medoid and of weighted_medoid_k_neighborhood
\* is row_sum(A, i) times the features of one node of x, output row i of
\* weighted_dimwise_median_cpu is, per dimension, row_sum(A, i) times that
\* feature of one node, and a row with row_sum(A, i) = 0 is the zero vector in
\* all three.
C9_RowSumTimesCopiedFeatures ==
    \A i \in 0..(args.n - 1) :
        /\ ret.medoid.status = "ok" =>
              /\ ScaledNode(ret.medoid.value[i].out, args.A, args.x, args.n, i)
              /\ RowSum(args.A, i, args.n) = 0 => IsZero(ret.medoid.value[i].out)
        /\ ret.k_medoid.status = "ok" =>
              /\ ScaledNode(ret.k_medoid.value[i].out, args.A, args.x, args.n, i)
              /\ RowSum(args.A, i, args.n) = 0 => IsZero(ret.k_medoid.value[i].out)
        /\ ret.dimmedian.status = "ok" =>
              /\ ScaledNodePerDim(ret.dimmedian.value[i].out, args.A, args.x, args.n, i)
              /\ RowSum(args.A, i, args.n) = 0 => IsZero(ret.dimmedian.value[i].out)

\* C9 witness: the three functions returned (the k-neighbourhood one for
\* k <= n) for an adjacency with a row of sum 0 and a row of sum > 1 whose
\* medoid output is not zero and whose median copies two different nodes.
C9_Witness ==
    /\ pc = "done"
    /\ ret.k <= args.n
    /\ \E i \in 0..(args.n - 1) : RowSum(args.A, i, args.n) = 0
    /\ \E i \in 0..(args.n - 1) :
          /\ RowSum(args.A, i, args.n) > 1
          /\ ~IsZero(ret.medoid.value[i].out)
          /\ ~IsZero(ret.k_medoid.value[i].out)
          /\ ~IsZero(ret.dimmedian.value[i].out)
          /\ ret.dimmedian.value[i].selected[1] # ret.dimmedian.value[i].selected[2]

\* the Euclidean distance of the features of a and b
EuclidDist(x, a, b) ==
    LET sq == SumSeq([dd \in DOMAIN x[a] |->
                        (x[a][dd] - x[b][dd]) * (x[a][dd] - x[b][dd])])
    IN  CHOOSE r \in 0..sq : r * r = sq

\* sum over j of A[i, j] * dist(x_c, x_j)
WeightedDistance(A, x, n, i, c) ==
    SumTo([j \in 0..(n - 1) |-> A[i][j] * EuclidDist(x, c, j)], n)

Neighbors(A, n, i) == {c \in 0..(n - 1) : A[i][c] # 0}

\* C10: in every row i of weighted_medoid with a nonzero entry the selected
\* node is a neighbour of i, and no neighbour of i has a smaller sum over j of
\* A[i, j] * dist(x_c, x_j).
C10_MedoidIsBestNeighbor ==
    ret.medoid.status = "ok" =>
        \A i \in 0..(args.n - 1) :
            Neighbors(args.A, args.n, i) # {} =>
                LET c == ret.medoid.value[i].selected
                IN  /\ c \in Neighbors(args.A, args.n, i)
                    /\ \A o \in Neighbors(args.A, args.n, i) :
                          WeightedDistance(args.A, args.x, args.n, i, c)
                              <= WeightedDistance(args.A, args.x, args.n, i, o)

\* C10 witness: weighted_medoid returned for a row with three neighbours of
\* which the selected one is neither node 0 nor the heaviest and has a
\* smaller sum than another neighbour.
C10_Witness ==
    /\ ret.medoid.status = "ok"
    /\ \E i \in 0..(args.n - 1) :
          LET c == ret.medoid.value[i].selected
          IN  /\ Cardinality(Neighbors(args.A, args.n, i)) = 3
              /\ c # 0
              /\ \E o \in Neighbors(args.A, args.n, i) : args.A[i][o] > args.A[i][c]
              /\ \E o \in Neighbors(args.A, args.n, i) :
                    WeightedDistance(args.A, args.x, args.n, i, c)
                        < WeightedDistance(args.A, args.x, args.n, i, o)

\* the sets of k nodes that hold k highest-weight entries of row i
TopKSets(A, n, k, i) ==
    {S \in SUBSET (0..(n - 1)) :
        /\ Cardinality(S) = k
        /\ \A c \in S : \A o \in (0..(n - 1)) \ S : A[i][c] >= A[i][o]}

\* sum over the entries j of S of A[i, j] * dist(x_c, x_j)
WeightedDistanceOver(A, x, S, i, c) ==
    LET RECURSIVE Sum(_)
        Sum(R) == IF R = {} THEN 0
                  ELSE LET j == CHOOSE j \in R : TRUE
                       IN  A[i][j] * EuclidDist(x, c, j) + Sum(R \ {j})
    IN  Sum(S)

\* for k <= n the node selected for a row i with a nonzero entry is a neighbour
\* of i among k highest-weight entries of the row, and no neighbour among them
\* has a smaller sum of A[i, j] * dist(x_c, x_j) over those entries
KMedoidIsBestOfTopK ==
    (ret.k_medoid.status = "ok" /\ ret.k <= args.n) =>
        \A i \in 0..(args.n - 1) :
            Neighbors(args.A, args.n, i) # {} =>
                \E S \in TopKSets(args.A, args.n, ret.k, i) :
                    LET c == ret.k_medoid.value[i].selected
                    IN  /\ c \in S \cap Neighbors(args.A, args.n, i)
                        /\ \A o \in S \cap Neighbors(args.A, args.n, i) :
                              WeightedDistanceOver(args.A, args.x, S, i, c)
                                 <= WeightedDistanceOver(args.A, args.x, S, i, o)

\* every row has at most k nonzero entries
DegreesWithinK ==
    \A i \in 0..(args.n - 1) : Nnz(args.A, i, args.n) <= ret.k

\* the neighbours of i whose sum over j of A[i, j] * dist(x_c, x_j) is minimal
\* all carry the same features
MinimiserIsUnique(A, x, n, i) ==
    \A c \in Neighbors(A, n, i), o \in Neighbors(A, n, i) :
        (/\ \A q \in Neighbors(A, n, i) :
                WeightedDistance(A, x, n, i, c) <= WeightedDistance(A, x, n, i, q)
         /\ \A q \in Neighbors(A, n, i) :
                WeightedDistance(A, x, n, i, o) <= WeightedDistance(A, x, n, i, q))
            => x[c] = x[o]

WeightBelow(A, x, n, i, dd, v) ==
    SumTo([j \in 0..(n - 1) |-> IF x[j][dd] < v THEN A[i][j] ELSE 0], n)

WeightUpTo(A, x, n, i, dd, v) ==
    SumTo([j \in 0..(n - 1) |-> IF x[j][dd] <= v THEN A[i][j] ELSE 0], n)

\* C12: for every row i and dimension dd the output of
\* weighted_dimwise_median_cpu is row_sum(A, i) * x[s, dd], where s is the
\* first node in ascending order of x[:, dd] at which the cumulative weight of
\* row i is at least half of row_sum(A, i): the weight below x[s, dd] is less
\* than half (or the row sum is 0 and s holds the least value), the weight up
\* to x[s, dd] is at least half; and A[i, s] > 0 when row_sum(A, i) > 0.
C12_MedianIsFirstHalfCrossing ==
    ret.dimmedian.status = "ok" =>
        \A i \in 0..(args.n - 1) : \A dd \in DOMAIN args.x[0] :
            LET s == ret.dimmedian.value[i].selected[dd]
                total == RowSum(args.A, i, args.n)
                v == args.x[s][dd]
            IN  /\ ret.dimmedian.value[i].out[dd] = total * v
                /\ 2 * WeightUpTo(args.A, args.x, args.n, i, dd, v) >= total
                /\ IF total > 0
                   THEN /\ 2 * WeightBelow(args.A, args.x, args.n, i, dd, v) < total
                        /\ args.A[i][s] > 0
                   ELSE \A j \in 0..(args.n - 1) : v <= args.x[j][dd]

\* C12 witness: the median returned for a row with three neighbours of unequal
\* weights, where dimension 1 selects a node that is not the first in
\* ascending order and whose cumulative weight is exactly half, and dimension
\* 2 selects another node; another row has row sum 0.
C12_Witness ==
    /\ ret.dimmedian.status = "ok"
    /\ \E i \in 0..(args.n - 1) :
          LET s == ret.dimmedian.value[i].selected
              total == RowSum(args.A, i, args.n)
          IN  /\ Nnz(args.A, i, args.n) = 3
              /\ \E c \in 0..(args.n - 1), o \in 0..(args.n - 1) :
                    args.A[i][c] # args.A[i][o]
              /\ s[1] # s[2]
              /\ WeightBelow(args.A, args.x, args.n, i, 1, args.x[s[1]][1]) > 0
              /\ \E dd \in 1..2 :
                    2 * WeightUpTo(args.A, args.x, args.n, i, dd, args.x[s[dd]][dd]) = total
              /\ ret.dimmedian.value[i].out # <<0, 0>>

(***************************************************************************)
(* The k-neighbourhood functions called with k > n.                        *)
(***************************************************************************)
FbN == 3              \* k > n: number of nodes n
FbMaxNnz == 2         \* k > n: most nonzero entries of the adjacency
FbMaxOver == 2        \* k > n: k ranges over n+1..n+FbMaxOver

NoFallback ==
    [medoid |-> NoRet, k_medoid |-> NoRet, soft_medoid |-> NoRet, soft_k |-> NoRet]

InitFallback ==
    /\ pc = "ready"
    /\ args \in [n : {FbN}, A : Adjs(FbN, FbMaxNnz), x : SoftFeatures(FbN),
                 k : (FbN + 1)..(FbN + FbMaxOver), temperature : TempBases,
                 with_weight_correction : BOOLEAN]
    /\ chunker = NoChunker
    /\ result = <<>>
    /\ ret = NoFallback

\* weighted_medoid(A, x)
FallbackCallMedoid ==
    /\ pc = "ready"
    /\ ret' = [ret EXCEPT !.medoid = WeightedMedoid(args.A, args.x, args.n)]
    /\ pc' = "medoid"
    /\ UNCHANGED <<args, chunker, result>>

\* weighted_medoid_k_neighborhood(A, x, k) with k > n
FallbackCallKMedoid ==
    /\ pc = "medoid"
    /\ ret' = [ret EXCEPT !.k_medoid =
                  WeightedMedoidKNeighborhood(args.A, args.x, args.n, args.k)]
    /\ pc' = "k_medoid"
    /\ UNCHANGED <<args, chunker, result>>

\* soft_weighted_medoid(A, x, temperature)
FallbackCallSoftMedoid ==
    /\ pc = "k_medoid"
    /\ ret' = [ret EXCEPT !.soft_medoid =
                  SoftWeightedMedoid(args.A, args.x, args.n, args.temperature)]
    /\ pc' = "soft_medoid"
    /\ UNCHANGED <<args, chunker, result>>

\* soft_weighted_medoid_k_neighborhood(A, x, k, temperature,
\*     with_weight_correction, threshold_for_dense_if_cpu) with k > n
FallbackCallSoftK ==
    /\ pc = "soft_medoid"
    /\ \E threshold \in {0, DefaultThreshold} :
          ret' = [ret EXCEPT !.soft_k =
                      SoftWeightedMedoidKNeighborhood(args.A, args.x, args.n, args.k,
                          args.temperature, args.with_weight_correction, threshold)]
    /\ pc' = "done"
    /\ UNCHANGED <<args, chunker, result>>

NextFallback ==
    \/ FallbackCallMedoid
    \/ FallbackCallKMedoid
    \/ FallbackCallSoftMedoid
    \/ FallbackCallSoftK

SpecFallback == InitFallback /\ [][NextFallback]_vars

\* C13: when k > n, weighted_medoid_k_neighborhood returns what
\* weighted_medoid(A, x) returns; soft_weighted_medoid_k_neighborhood returns
\* what soft_weighted_medoid(A, x, temperature) returns when
\* with_weight_correction is false, and raises NotImplementedError without
\* any embeddings when it is true.
C13_FallbackWhenKExceedsN ==
    args.k > args.n =>
        /\ ret.k_medoid.status # "none" => ret.k_medoid = ret.medoid
        /\ ret.soft_k.status # "none" =>
              IF args.with_weight_correction
              THEN /\ ret.soft_k.status = "NotImplementedError"
                   /\ ret.soft_k.value = <<>>
              ELSE ret.soft_k = ret.soft_medoid

\* C13 witness: all four calls returned for k > n and an adjacency with a row
\* of two neighbours with different features, without weight correction, the
\* soft fallback returning a non-zero row.
C13_Witness ==
    /\ pc = "done"
    /\ args.k > args.n
    /\ ~args.with_weight_correction
    /\ ret.soft_k.status = "ok"
    /\ ret.k_medoid.status = "ok"
    /\ \E i \in 0..(args.n - 1) :
          /\ Nnz(args.A, i, args.n) = 2
          /\ \E c \in Neighbors(args.A, args.n, i), o \in Neighbors(args.A, args.n, i) :
                args.x[c] # args.x[o]
          /\ ~ZeroVector(ret.soft_k.value[i].out)
          /\ ~IsZero(ret.k_medoid.value[i].out)

\* C14: soft_weighted_medoid_k_neighborhood called with
\* with_weight_correction=True and k >= n, k = n included, raises instead of
\* returning embeddings, on either side of the dense threshold.
C14_WeightCorrectionRaisesFromKEqualN ==
    (args.with_weight_correction /\ args.k >= args.n) =>
        /\ ret.dense.status \in {"none", "NotImplementedError"}
        /\ ret.sparse.status \in {"none", "NotImplementedError"}

(***************************************************************************)
(* Claims on the soft aggregations.                                        *)
(***************************************************************************)
\* the neighbours of i among the k highest-weight entries of row i
TopKNeighbors(A, n, k, i) ==
    {TorchTopK(A, i, n, k)[s] : s \in 1..k} \cap Neighbors(A, n, i)

\* the top-k neighbours of i all have the same sum of A[i, j] * dist(x_c, x_j)
\* over the top-k neighbours j
EqualTopKSums(A, x, n, k, i) ==
    LET S == TopKNeighbors(A, n, k, i)
    IN  \A c \in S, o \in S :
            WeightedDistanceOver(A, x, S, i, c) = WeightedDistanceOver(A, x, S, i, o)

\* sum over the nodes j of S of A[i, j] * x[j, dd]
WeightedFeatureSum(A, x, S, i, dd) ==
    LET RECURSIVE Sum(_)
        Sum(R) == IF R = {} THEN 0
                  ELSE LET j == CHOOSE j \in R : TRUE
                       IN  A[i][j] * x[j][dd] + Sum(R \ {j})
    IN  Sum(S)

\* the GCN aggregation of row i: sum over j of A[i, j] * x_j
GcnRow(A, x, n, i) ==
    [dd \in DOMAIN x[0] |-> RatInt(WeightedFeatureSum(A, x, 0..(n - 1), i, dd))]

\* row_sum(A, i) times the weighted mean of the features of the top-k
\* neighbours of i
TopKMeanRow(A, x, n, k, i) ==
    LET S == TopKNeighbors(A, n, k, i)
    IN  [dd \in DOMAIN x[0] |->
            IF S = {} THEN RatInt(0)
            ELSE Rat(RowSum(A, i, n) * WeightedFeatureSum(A, x, S, i, dd),
                     WeightedFeatureSum(A, [j \in 0..(n - 1) |-> <<1>>], S, i, 1))]

\* every row without entries comes after every row with entries
DisconnectedRowsTrail(A, n) ==
    \A i \in 0..(n - 1), j \in 0..(n - 1) :
        (i < j /\ Nnz(A, i, n) = 0) => Nnz(A, j, n) = 0

Spread(x, n, dd) ==
    CHOOSE m \in {x[a][dd] - x[c][dd] : a \in 0..(n - 1), c \in 0..(n - 1)} :
        \A a \in 0..(n - 1), c \in 0..(n - 1) : x[a][dd] - x[c][dd] <= m

\* the rational q is a number within row_sum * spread * (n - 1) / (b + n - 1)
\* of the integer h: the distance left at temperature 1 / ln(b) when one
\* candidate is ahead of the n - 1 others by a distance sum of at least 1
WithinSoftmaxTail(q, h, row_sum, spread, n, b) ==
    /\ ~IsNaN(q)
    /\ Abs(q.num - h * q.den) * (b + n - 1) <= row_sum * spread * (n - 1) * q.den

\* C16: at temperature 1 / ln(b) every output row of soft_weighted_medoid is
\* within row_sum * spread * (n - 1) / (b + n - 1) of the output row of
\* weighted_medoid, a distance that goes to 0 with the temperature: the soft
\* output converges to the row of the single node the hard medoid selects.
C16_SoftMedoidConvergesToMedoid ==
    (ret.soft_medoid.status = "ok" /\ ret.medoid.status = "ok") =>
        \A i \in 0..(args.n - 1) : \A dd \in DOMAIN args.x[0] :
            WithinSoftmaxTail(ret.soft_medoid.value[i].out[dd],
                              ret.medoid.value[i].out[dd],
                              RowSum(args.A, i, args.n),
                              Spread(args.x, args.n, dd), args.n, args.temperature)

(***************************************************************************)
(* The soft aggregations at temperatures below 1, next to the hard medoid. *)
(***************************************************************************)
LtN == 3              \* low temperature: number of nodes n
LtMaxNnz == 3         \* low temperature: most nonzero entries of the adjacency

LowTempBases == {3, 9}    \* temperatures 1/ln(3) and 1/ln(9), both below 1

\* scalar features 0 or 1, node 0 at 0
LtFeatures(n) == {x \in SoftFeatures(n) : x[0] = <<0>>}

NoLowTemp ==
    [medoid |-> NoRet, soft_medoid |-> NoRet, dense |-> NoRet, sparse |-> NoRet,
     k |-> 0, with_weight_correction |-> FALSE]

InitLowTemp ==
    /\ pc = "ready"
    /\ args \in [n : {LtN}, A : Adjs(LtN, LtMaxNnz), x : LtFeatures(LtN),
                 temperature : LowTempBases]
    /\ chunker = NoChunker
    /\ result = <<>>
    /\ ret = NoLowTemp

\* weighted_medoid(A, x)
LowTempCallMedoid ==
    /\ pc = "ready"
    /\ ret' = [ret EXCEPT !.medoid = WeightedMedoid(args.A, args.x, args.n)]
    /\ pc' = "medoid"
    /\ UNCHANGED <<args, chunker, result>>

\* soft_weighted_medoid(A, x, temperature)
LowTempCallSoftMedoid ==
    /\ pc = "medoid"
    /\ ret' = [ret EXCEPT !.soft_medoid =
                  SoftWeightedMedoid(args.A, args.x, args.n, args.temperature)]
    /\ pc' = "soft_medoid"
    /\ UNCHANGED <<args, chunker, result>>

\* soft_weighted_medoid_k_neighborhood(A, x, k, temperature,
\*     with_weight_correction) for some k <= n: dense path
LowTempCallSoftKDense ==
    /\ pc = "soft_medoid"
    /\ \E k \in 1..args.n, with_weight_correction \in BOOLEAN :
          ret' = [ret EXCEPT
                     !.dense = SoftWeightedMedoidKNeighborhood(args.A, args.x,
                                   args.n, k, args.temperature,
                                   with_weight_correction, DefaultThreshold),
                     !.k = k,
                     !.with_weight_correction = with_weight_correction]
    /\ pc' = "dense"
    /\ UNCHANGED <<args, chunker, result>>

\* the same call with threshold_for_dense_if_cpu=0: sparse path
LowTempCallSoftKSparse ==
    /\ pc = "dense"
    /\ ret' = [ret EXCEPT
                  !.sparse = SoftWeightedMedoidKNeighborhood(args.A, args.x,
                                 args.n, ret.k, args.temperature,
                                 ret.with_weight_correction, 0)]
    /\ pc' = "done"
    /\ UNCHANGED <<args, chunker, result>>

NextLowTemp ==
    \/ LowTempCallMedoid
    \/ LowTempCallSoftMedoid
    \/ LowTempCallSoftKDense
    \/ LowTempCallSoftKSparse

SpecLowTemp == InitLowTemp /\ [][NextLowTemp]_vars

\* the nodes of S whose sum over j in S of A[i, j] * dist(x_c, x_j) is minimal
TiedIn(A, x, S, i) ==
    {c \in S : \A o \in S :
        WeightedDistanceOver(A, x, S, i, c) <= WeightedDistanceOver(A, x, S, i, o)}

\* row_sum(A, i) times the equal-weight average of x[c, dd] over c in S
EqualAverage(A, x, n, S, i, dd) ==
    Rat(RowSum(A, i, n) * WeightedFeatureSum([r \in 0..(n - 1) |-> [c \in 0..(n - 1) |-> 1]],
                                             x, S, i, dd),
        Cardinality(S))

\* row_sum(A, i) times the average of x[c, dd] over c in S, each weighted
\* with A[i, c]
WeightProportionalAverage(A, x, n, S, i, dd) ==
    Rat(RowSum(A, i, n) * WeightedFeatureSum(A, x, S, i, dd),
        WeightedFeatureSum(A, [j \in 0..(n - 1) |-> <<1>>], S, i, 1))

\* q is the low-temperature value t: equal to t when every candidate is tied
\* (no candidate is left for the softmax tail), otherwise within the tail, whose
\* total mass is at most others / (b + others) when each candidate outside the
\* tie has at most 1/b of the mass of a tied one, `others` counting them with
\* their relative weight.
LowTempValue(q, t, all_tied, row_sum, spread, others, b) ==
    /\ ~IsNaN(q)
    /\ IF all_tied THEN q = t
       ELSE Abs(q.num * t.den - t.num * q.den) * (b + others)
                <= row_sum * spread * others * q.den * t.den

\* the largest ratio of two weights: the largest weight, the smallest being 1
MaxWeightRatio == CHOOSE r \in Weights : \A w \in Weights : w <= r

SmN == 3              \* soft_median: number of nodes n
SmMaxEntries == 3     \* soft_median: most stored entries of the adjacency

\* the stored entries S with values w as A._indices(), A._values()
EdgeList(S, w, n) ==
    Flatten([r \in 1..n |->
                SelectSeq([c \in 1..n |->
                              [row |-> r - 1, col |-> c - 1,
                               val |-> IF <<r - 1, c - 1>> \in S
                                       THEN w[<<r - 1, c - 1>>] ELSE -1]],
                          LAMBDA e : e.val # -1)])

\* the sparse n by n adjacencies with at most m stored entries of weight 0 or
\* drawn from Weights
SparseAdjs(n, m) ==
    UNION {{EdgeList(S, w, n) : w \in [S -> {0} \cup Weights]} :
           S \in {T \in SUBSET Pairs(n) : Cardinality(T) <= m}}

\* custom_cuda_kernels.dimmedian_idx(x, A)[i][dd]: the node whose value is the
\* weighted median of dimension dd over row i: with the nodes sorted along
\* their values (equal values in node order), the first node at which the
\* cumulative weight of row i reaches 50% of the row's weight.
DimmedianIdx(edges, x, n, i, dd) ==
    LET Before(o, j) == x[o][dd] < x[j][dd] \/ (x[o][dd] = x[j][dd] /\ o < j)
        CumUpTo(j) ==
            SumSeq([p \in DOMAIN edges |->
                       IF /\ edges[p].row = i
                          /\ (edges[p].col = j \/ Before(edges[p].col, j))
                       THEN edges[p].val ELSE 0])
        Reached(j) == 2 * CumUpTo(j) >= ScatterRowSum(edges, i)
    IN  CHOOSE j \in 0..(n - 1) :
            /\ Reached(j)
            /\ \A o \in 0..(n - 1) : Before(o, j) => ~Reached(o)

\* p / q as torch divides: 0 / 0 is NaN
RatDiv(p, q) ==
    IF IsNaN(p) \/ IsNaN(q) THEN NaN ELSE Rat(p.num * q.den, p.den * q.num)

\* soft_median, row i: the positions of the stored entries of row i, their
\* final_adj_weights and the row of new_embeddings
SoftMedianRow(edges, x, n, b, i) ==
    LET own == SelectSeq([p \in DOMAIN edges |-> p], LAMBDA p : edges[p].row = i)
        m == Len(own)
        \* weight_sums = torch_scatter.scatter_add(edge_weights, row_index)
        weight_sums == ScatterRowSum(edges, i)
        \* torch.norm(x_median[row_index] - x[col_index], dim=1, p=p) / pow(d, 1 / p)
        \* x_median = x[median_idx, median_col_idx]
        x_median == [dd \in DOMAIN x[0] |-> x[DimmedianIdx(edges, x, n, i, dd)][dd]]
        distances ==
            [a \in 1..m |->
                ISqrt(SumSeq([dd \in DOMAIN x[0] |->
                    (x_median[dd] - x[edges[own[a]].col][dd])
                        * (x_median[dd] - x[edges[own[a]].col][dd])]))]
        \* scatter_softmax(-distances / temperature, row_index, dim=-1, eps=eps)
        soft_weights == Softmax(distances, b)
        weighted_values == [a \in 1..m |-> RatMul(soft_weights[a], RatInt(edges[own[a]].val))]
        row_sum_weighted_values == RatSumTo(weighted_values, m)
        \* weighted_values / row_sum_weighted_values[row_index] * weight_sums[row_index]
        final_adj_weights ==
            [a \in 1..m |->
                RatMul(RatDiv(weighted_values[a], row_sum_weighted_values),
                       RatInt(weight_sums))]
    IN  [final_adj_weights |-> final_adj_weights,
         \* torch_sparse.spmm(edge_index, final_adj_weights, n, n, x)
         out |-> [dd \in DOMAIN x[0] |->
                     RatSumTo([a \in 1..m |->
                                  RatMul(final_adj_weights[a],
                                         RatInt(x[edges[own[a]].col][dd]))], m)]]

SoftMedian(edges, x, n, b) ==
    [status |-> "ok",
     value |-> [i \in 0..(n - 1) |-> SoftMedianRow(edges, x, n, b, i)]]

InitSoftMedian ==
    /\ pc = "ready"
    /\ args \in [n : {SmN}, A : SparseAdjs(SmN, SmMaxEntries), x : SoftFeatures(SmN),
                 temperature : TempBases]
    /\ chunker = NoChunker
    /\ result = <<>>
    /\ ret = NoRet

\* soft_median(A, x, temperature=temperature)
CallSoftMedian ==
    /\ pc = "ready"
    /\ ret' = SoftMedian(args.A, args.x, args.n, args.temperature)
    /\ pc' = "done"
    /\ UNCHANGED <<args, chunker, result>>

NextSoftMedian == CallSoftMedian

SpecSoftMedian == InitSoftMedian /\ [][NextSoftMedian]_vars

\* the positions of the stored entries of row i
StoredInRow(edges, i) == {p \in DOMAIN edges : edges[p].row = i}

\* C18: after soft_median, in every row of positive total weight the final
\* edge weights are non-negative and sum to the row's total weight; in a row
\* whose stored entries all have weight 0 no weight is the NaN of a division
\* by zero and the output row is zero.
C18_SoftMedianWeightsSumToRowSum ==
    pc = "done" =>
        \A i \in 0..(args.n - 1) :
            LET row == ret.value[i]
                m == Len(row.final_adj_weights)
                total == ScatterRowSum(args.A, i)
            IN  /\ total > 0 =>
                      /\ \A a \in 1..m : /\ ~IsNaN(row.final_adj_weights[a])
                                         /\ row.final_adj_weights[a].num >= 0
                      /\ RatSumTo(row.final_adj_weights, m) = RatInt(total)
                /\ (StoredInRow(args.A, i) # {} /\ total = 0) =>
                      /\ \A a \in 1..m : ~IsNaN(row.final_adj_weights[a])
                      /\ \A dd \in DOMAIN args.x[0] : row.out[dd] = RatInt(0)

(***************************************************************************)
(* ROBUST_MEANS and RGNNConv: the layer looks its aggregation up by name    *)
(* when it is constructed and calls it in propagate.                        *)
(***************************************************************************)
ConvN == 3            \* RGNNConv: number of nodes n
ConvMaxNnz == 1       \* RGNNConv: most nonzero entries of the adjacency
ConvMaxK == 4         \* RGNNConv: largest k of mean_kwargs

\* the dictionary ROBUST_MEANS: variant name -> aggregation function
ROBUST_MEANS ==
    ("dimmedian" :> "weighted_dimwise_median")
        @@ ("medoid" :> "weighted_medoid")
        @@ ("k_medoid" :> "weighted_medoid_k_neighborhood")
        @@ ("soft_medoid" :> "soft_weighted_medoid")
        @@ ("soft_k_medoid" :> "soft_weighted_medoid_k_neighborhood")
        @@ ("soft_median" :> "soft_median")

\* the names a caller may pass as `mean`: the keys of the table and others
MeanNames == DOMAIN ROBUST_MEANS \cup {"mean", "median", "soft_k_medoids"}

\* A variant of RGNNConv.__init__ that looks the name up with a default
\* (ROBUST_MEANS.get(mean, soft_weighted_medoid_k_neighborhood)).
RGNNConvInitWithDefault(mean, mean_kwargs) ==
    [status |-> "ok",
     _mean |-> IF mean \in DOMAIN ROBUST_MEANS THEN ROBUST_MEANS[mean]
               ELSE "soft_weighted_medoid_k_neighborhood",
     _mean_kwargs |-> mean_kwargs]

\* RGNNConv.__init__(mean, mean_kwargs): self._mean = ROBUST_MEANS[mean]
\* raises KeyError for a name that is not a key
RGNNConvInit(mean, mean_kwargs) ==
    IF mean \in DOMAIN ROBUST_MEANS
    THEN [status |-> "ok", _mean |-> ROBUST_MEANS[mean], _mean_kwargs |-> mean_kwargs]
    ELSE [status |-> "KeyError", _mean |-> "", _mean_kwargs |-> <<>>]

\* self._mean(A, x, **self._mean_kwargs) on the CPU
CallMean(fn, A, x, n, kw) ==
    CASE fn = "weighted_dimwise_median" -> WeightedDimwiseMedianCpu(A, x, n)
      [] fn = "weighted_medoid" -> WeightedMedoid(A, x, n)
      [] fn = "weighted_medoid_k_neighborhood" -> WeightedMedoidKNeighborhood(A, x, n, kw.k)
      [] fn = "soft_weighted_medoid" -> SoftWeightedMedoid(A, x, n, kw.temperature)
      [] fn = "soft_weighted_medoid_k_neighborhood" ->
            SoftWeightedMedoidKNeighborhood(A, x, n, kw.k, kw.temperature,
                                            kw.with_weight_correction, DefaultThreshold)
      [] fn = "soft_median" -> SoftMedian(Coo(A, n), x, n, kw.temperature)

NoConv == [conv |-> NoRet, out |-> NoRet]

InitConv ==
    /\ pc = "new"
    /\ args \in [n : {ConvN}, A : Adjs(ConvN, ConvMaxNnz), x : SoftFeatures(ConvN),
                 mean : MeanNames,
                 mean_kwargs : [k : {2, ConvMaxK}, temperature : {2},
                                with_weight_correction : BOOLEAN]]
    /\ chunker = NoChunker
    /\ result = <<>>
    /\ ret = NoConv

\* RGNNConv(mean=mean, mean_kwargs=mean_kwargs)
ConstructRGNNConv ==
    /\ pc = "new"
    /\ ret' = [ret EXCEPT !.conv = RGNNConvInit(args.mean, args.mean_kwargs)]
    /\ pc' = IF ret'.conv.status = "ok" THEN "constructed" ELSE "failed"
    /\ UNCHANGED <<args, chunker, result>>

\* RGNNConv.propagate(edge_index, x=x, norm=edge_weights) of a constructed layer
Propagate ==
    /\ pc = "constructed"
    /\ ret' = [ret EXCEPT !.out = CallMean(ret.conv._mean, args.A, args.x, args.n,
                                           ret.conv._mean_kwargs)]
    /\ pc' = "done"
    /\ UNCHANGED <<args, chunker, result>>

NextConv ==
    \/ ConstructRGNNConv
    \/ Propagate

SpecConv == InitConv /\ [][NextConv]_vars

\* the six variants and the function each stands for
SixVariants ==
    {<<"medoid", "weighted_medoid">>,
     <<"k_medoid", "weighted_medoid_k_neighborhood">>,
     <<"soft_medoid", "soft_weighted_medoid">>,
     <<"soft_k_medoid", "soft_weighted_medoid_k_neighborhood">>,
     <<"dimmedian", "weighted_dimwise_median">>,
     <<"soft_median", "soft_median">>}

\* C19: once the constructor has run, a layer exists exactly when its name is
\* one of the six variants, and then it holds that variant's own function; for
\* any other name the construction failed and no forward pass has run or ever
\* produces an output.
C19_SixVariantsElseConstructionFails ==
    pc # "new" =>
        /\ (\E v \in SixVariants : v[1] = args.mean) =>
              /\ ret.conv.status = "ok"
              /\ \E v \in SixVariants : v[1] = args.mean /\ v[2] = ret.conv._mean
        /\ ~(\E v \in SixVariants : v[1] = args.mean) =>
              /\ ret.conv.status = "KeyError"
              /\ pc = "failed"
              /\ ret.out = NoRet

\* C19 witness: the construction with a name outside the table has failed and
\* nothing was aggregated.
C19_Witness ==
    /\ pc = "failed"
    /\ args.mean = "soft_k_medoids"
    /\ ret.conv.status = "KeyError"
    /\ ret.out = NoRet

(***************************************************************************)
(* Storage of the tensors.  A call is run statement by statement; the       *)
(* environment env maps a name to the set of storages its tensor lives in,  *)
(* the heap maps a storage to the lines that wrote into it.  A statement    *)
(* either binds a name to a fresh storage (an out-of-place result), binds   *)
(* it to the storages of other names (a view, an identity conversion, a     *)
(* component of a sparse tensor), writes in place into the storages of a    *)
(* name, or raises.  The caller's tensors live in the input storages.       *)
(***************************************************************************)
StorageX == <<0, "x">>
StorageIdx == <<0, "A_idx">>
StorageVal == <<0, "A_val">>
InputStorages == {StorageX, StorageIdx, StorageVal}

New(line, dst) == [line |-> line, kind |-> "new", dst |-> dst, src |-> {}, keep |-> "all"]
Alias(line, dst, src) == [line |-> line, kind |-> "alias", dst |-> dst, src |-> src, keep |-> "all"]
Part(line, dst, src, keep) == [line |-> line, kind |-> "alias", dst |-> dst, src |-> src, keep |-> keep]
Write(line, dst) == [line |-> line, kind |-> "write", dst |-> dst, src |-> {}, keep |-> "all"]
Raise(line, exc) == [line |-> line, kind |-> "raise", dst |-> exc, src |-> {}, keep |-> "all"]

When(c, stmts) == IF c THEN stmts ELSE <<>>

\* _distance_matrix(x)
DistanceMatrixProg ==
    <<New(462, "x_norm"), Alias(463, "x_norm_t", {"x_norm"}), New(464, "squared"),
      New(467, "l2")>>

\* A variant of weighted_medoid whose product of line 491 is formed in place
\* in the expanded view of A_cpu_dense (mul_ instead of *).
WeightedMedoidProgInPlace(cfg) ==
    DistanceMatrixProg
        \o <<Alias(487, "A_cpu_dense", {"A"}), Alias(488, "l2_cpu", {"l2"})>>
        \o When(cfg.sparse, <<New(490, "A_cpu_dense")>>)
        \o <<Alias(491, "distances", {"A_cpu_dense"}), Write(492, "distances"),
             New(493, "distances"), Write(494, "distances"),
             New(495, "row_sum"), New(496, "return")>>

\* weighted_medoid(A, x): A.cpu() of a CPU tensor is the tensor itself,
\* to_dense() of a sparse tensor is a new one
WeightedMedoidProg(cfg) ==
    DistanceMatrixProg
        \o <<Alias(487, "A_cpu_dense", {"A"}), Alias(488, "l2_cpu", {"l2"})>>
        \o When(cfg.sparse, <<New(490, "A_cpu_dense")>>)
        \o <<New(491, "distances"), Write(492, "distances"),
             New(493, "distances"), Write(494, "distances"),
             New(495, "row_sum"), New(496, "return")>>

\* weighted_medoid_k_neighborhood(A, x, k)
WeightedMedoidKProg(cfg) ==
    IF cfg.k_gt_n THEN WeightedMedoidProg(cfg)
    ELSE DistanceMatrixProg
            \o (IF cfg.sparse THEN <<New(519, "A_dense")>>
                ELSE <<Alias(521, "A_dense", {"A"})>>)
            \o <<New(522, "topk_a"), New(522, "topk_a_idx"),
                 Alias(523, "topk_l2_idx", {"topk_a_idx"}),
                 New(524, "distances_k"), Write(528, "distances_k"),
                 Write(529, "distances_k"), New(530, "row_sum"), New(531, "return")>>

\* soft_weighted_medoid(A, x, temperature)
SoftWeightedMedoidProg(cfg) ==
    DistanceMatrixProg
        \o <<Alias(558, "A_cpu_dense", {"A"}), Alias(559, "l2_cpu", {"l2"})>>
        \o When(cfg.sparse, <<New(561, "A_cpu_dense")>>)
        \o <<New(562, "distances"), Write(563, "distances"),
             New(564, "distances"), Write(565, "distances"),
             New(566, "row_sum"), New(567, "return")>>

\* dense_cpu_soft_weighted_medoid_k_neighborhood(A, x, k, ...): to_dense() of
\* a dense tensor is the tensor itself
DenseSoftKProg(cfg) ==
    (IF cfg.sparse THEN <<New(357, "A_dense")>> ELSE <<Alias(357, "A_dense", {"A"})>>)
        \o DistanceMatrixProg
        \o <<New(361, "topk_a"), New(361, "topk_a_idx"),
             Alias(362, "topk_l2_idx", {"topk_a_idx"}),
             New(363, "distances_k"), Write(370, "distances_k"),
             New(372, "row_sum"), New(374, "topk_weights"), Write(376, "topk_weights")>>
        \o When(cfg.with_weight_correction,
                <<Write(378, "topk_weights"), Write(381, "topk_weights")>>)
        \o <<New(382, "return")>>

\* _select_k_idx_cpu(row_idx, col_idx, values, k_per_row, n): the arguments
\* are the numpy views of the tensors
SelectKIdxCpuProg ==
    <<Alias(161, "row_idx", {"A_indices"}), Alias(162, "col_idx", {"A_indices"}),
      Alias(163, "values", {"A_values"}), Alias(164, "k_per_row_np", {"k_per_row"}),
      New(113, "sort_idx"), New(114, "row_idx"), New(115, "col_idx"),
      New(125, "curr_idx"), New(128, "new_idx"), New(132, "valiue_idx"),
      New(133, "unroll_idx")>>

\* _sparse_top_k(A_indices, A_values, n, k, return_sparse) on the CPU
SparseTopKProg(return_sparse) ==
    <<New(149, "n_edges_per_row"), New(154, "k_per_row")>>
        \o SelectKIdxCpuProg
        \o <<New(169, "new_idx"), New(170, "value_idx")>>
        \o (IF return_sparse THEN <<New(173, "return")>>
            ELSE <<New(175, "unroll_idx"), New(176, "values"), New(177, "indices"),
                   Write(178, "values"), Write(179, "indices")>>)

\* partial_distance_matrix(x, partial_idx): flatten() of the expanded index
\* is a view of partial_idx when k = 1
PartialDistanceMatrixProg ==
    <<Alias(203, "idx_row", {"partial_idx"}), Alias(204, "idx_column", {"partial_idx"}),
      New(205, "missing_mask"), New(206, "idx_row"), New(206, "idx_column"),
      New(208, "symmetry_mask"), Write(209, "idx_row"), Write(209, "idx_column"),
      New(213, "linear_index"), New(218, "distance_matrix_idx"),
      New(221, "sparse_distances"), New(224, "out"), Write(227, "out"),
      Alias(229, "return", {"out"})>>

\* soft_weighted_medoid_k_neighborhood(A, x, k, temperature,
\*     with_weight_correction, threshold_for_dense_if_cpu)
SoftKProg(cfg) ==
    IF cfg.k_gt_n
    THEN IF cfg.with_weight_correction THEN <<Raise(270, "NotImplementedError")>>
         ELSE SoftWeightedMedoidProg(cfg)
    ELSE IF cfg.dense_path THEN DenseSoftKProg(cfg)
    ELSE IF ~cfg.sparse THEN <<Raise(275, "AttributeError")>>
    ELSE <<Part(275, "A_rows", {"A"}, "idx"), Part(275, "A_cols", {"A"}, "idx"),
           Part(275, "A_values", {"A"}, "val")>>
            \o When(cfg.missing_rows,
                    <<New(284, "all_row_idx_once"), New(285, "missing_rows_mask"),
                      New(286, "missing_row_idx"), New(290, "missing_cols_idx"),
                      New(291, "missing_values"), New(293, "A_rows"),
                      New(294, "A_cols"), New(295, "A_values")>>)
            \o <<New(297, "A_indices")>>
            \o SparseTopKProg(FALSE)
            \o <<Alias(300, "top_k_weights", {"values"}), Alias(300, "top_k_idx", {"indices"}),
                 Alias(303, "partial_idx", {"top_k_idx"})>>
            \o PartialDistanceMatrixProg
            \o <<Alias(303, "distances_top_k", {"return"}), New(306, "distances_top_k"),
                 Write(314, "distances_top_k"), Write(315, "distances_top_k"),
                 New(318, "reliable_adj_values")>>
            \o When(cfg.with_weight_correction,
                    <<New(323, "reliable_adj_values"), New(326, "reliable_adj_values")>>)
            \o <<New(329, "top_k_inv_idx_row"), Alias(330, "top_k_inv_idx_column", {"top_k_idx"}),
                 New(331, "top_k_mask"), New(336, "reliable_adj_index"),
                 New(337, "reliable_adj_values"), New(340, "a_row_sum"),
                 New(341, "new_embeddings"), Alias(342, "return", {"new_embeddings"})>>

\* weighted_dimwise_median(A, x) on the CPU: weighted_dimwise_median_cpu
WeightedDimwiseMedianProg(cfg) ==
    <<New(430, "x_sorted"), New(430, "index_x"), New(431, "matrix_index_for_each_node"),
      Alias(432, "A_cpu_dense", {"A"})>>
        \o When(cfg.sparse, <<New(434, "A_cpu_dense")>>)
        \o <<New(435, "cum_sorted_weights"), New(436, "weight_sum_per_node"),
             New(437, "median_element"), New(439, "matrix_reverse_index"),
             New(440, "x_selected"), New(444, "return")>>

\* custom_cuda_kernels.dimmedian_idx(x, A): reads its arguments and returns
\* a new index tensor
DimmedianIdxKernelProg == <<New(605, "median_idx")>>

\* soft_median(A, x, p, temperature, eps)
SoftMedianProg(cfg) ==
    IF ~cfg.sparse THEN <<Raise(600, "RuntimeError")>>
    ELSE <<Part(600, "edge_index", {"A"}, "idx"), Part(600, "edge_weights", {"A"}, "val"),
           Alias(601, "row_index", {"edge_index"}), Alias(601, "col_index", {"edge_index"}),
           New(602, "weight_sums"),
           Alias(605, "kernel_A", {"edge_index", "edge_weights"})>>
            \o DimmedianIdxKernelProg
            \o <<New(606, "median_col_idx"), New(607, "x_median"), New(609, "distances"),
                 New(611, "soft_weights"), New(612, "weighted_values"),
                 New(613, "row_sum_weighted_values"), New(614, "final_adj_weights"),
                 New(616, "new_embeddings"), Alias(618, "return", {"new_embeddings"})>>

\* chunked_message_and_aggregate(adj_t, x, n_chunks) with the default
\* aggregation torch_sparse.matmul, two chunks
ChunkedProg(cfg) ==
    IF ~cfg.requires_grad THEN <<New(78, "return")>>
    ELSE <<Part(80, "edge_weight", {"A"}, "val"), Part(80, "rest", {"A"}, "idx"),
           New(93, "chunker"),
           Alias(88, "adj", {"edge_weight", "rest"}), New(89, "adj_chunk"), New(89, "chunk_0"),
           Alias(88, "adj", {"edge_weight", "rest"}), New(89, "adj_chunk"), New(89, "chunk_1"),
           New(61, "result"), Alias(99, "return", {"result"})>>

FrameFunctions ==
    {"weighted_medoid", "weighted_medoid_k_neighborhood", "soft_weighted_medoid",
     "soft_weighted_medoid_k_neighborhood", "weighted_dimwise_median", "soft_median",
     "_sparse_top_k", "partial_distance_matrix", "chunked_message_and_aggregate"}

\* the statements a call of fn runs, in order
FrameProgram(fn, cfg) ==
    CASE fn = "weighted_medoid" -> WeightedMedoidProg(cfg)
      [] fn = "weighted_medoid_k_neighborhood" -> WeightedMedoidKProg(cfg)
      [] fn = "soft_weighted_medoid" -> SoftWeightedMedoidProg(cfg)
      [] fn = "soft_weighted_medoid_k_neighborhood" -> SoftKProg(cfg)
      [] fn = "weighted_dimwise_median" -> WeightedDimwiseMedianProg(cfg)
      [] fn = "soft_median" -> SoftMedianProg(cfg)
      [] fn = "_sparse_top_k" ->
            <<Part(139, "A_indices", {"A"}, "idx"), Part(139, "A_values", {"A"}, "val")>>
                \o SparseTopKProg(cfg.dense_path)
      [] fn = "partial_distance_matrix" ->
            <<Part(183, "partial_idx", {"A"}, "idx")>> \o PartialDistanceMatrixProg
      [] fn = "chunked_message_and_aggregate" -> ChunkedProg(cfg)

\* the storages of the names src, restricted to a component of the adjacency
Storages(env, src, keep) ==
    LET all == UNION {env[nm] : nm \in src}
    IN  IF keep = "idx" THEN all \ {StorageVal}
        ELSE IF keep = "val" THEN all \ {StorageIdx}
        ELSE all

\* the effect of one statement on env and heap
Exec(stmt, env, heap) ==
    LET fresh == <<stmt.line, stmt.dst>>
        Bind(S) == [nm \in DOMAIN env \cup {stmt.dst} |-> IF nm = stmt.dst THEN S ELSE env[nm]]
    IN  CASE stmt.kind = "new" ->
                [env |-> Bind({fresh}),
                 heap |-> [st \in DOMAIN heap \cup {fresh} |->
                              IF st = fresh THEN {} ELSE heap[st]]]
          [] stmt.kind = "alias" ->
                [env |-> Bind(Storages(env, stmt.src, stmt.keep)), heap |-> heap]
          [] stmt.kind = "write" ->
                [env |-> env,
                 heap |-> [st \in DOMAIN heap |->
                              IF st \in env[stmt.dst] THEN heap[st] \cup {stmt.line}
                              ELSE heap[st]]]

NoFrame ==
    [env |-> ("x" :> {StorageX}) @@ ("A" :> {StorageIdx, StorageVal}),
     heap |-> [st \in InputStorages |-> {}],
     at |-> 1, raised |-> "none"]

InitFrame ==
    /\ pc = "call"
    /\ args \in [fn : FrameFunctions,
                 cfg : [sparse : BOOLEAN, k_gt_n : BOOLEAN, with_weight_correction : BOOLEAN,
                        dense_path : BOOLEAN, missing_rows : BOOLEAN, requires_grad : BOOLEAN]]
    /\ chunker = NoChunker
    /\ result = <<>>
    /\ ret = NoFrame

\* the next statement of the call, other than a raise
FrameExec ==
    /\ pc \in {"call", "run"}
    /\ ret.at <= Len(FrameProgram(args.fn, args.cfg))
    /\ LET stmt == FrameProgram(args.fn, args.cfg)[ret.at]
       IN  /\ stmt.kind # "raise"
           /\ ret' = [ret EXCEPT !.env = Exec(stmt, ret.env, ret.heap).env,
                                 !.heap = Exec(stmt, ret.env, ret.heap).heap,
                                 !.at = ret.at + 1]
    /\ pc' = "run"
    /\ UNCHANGED <<args, chunker, result>>

\* a raise ends the call
FrameRaise ==
    /\ pc \in {"call", "run"}
    /\ ret.at <= Len(FrameProgram(args.fn, args.cfg))
    /\ LET stmt == FrameProgram(args.fn, args.cfg)[ret.at]
       IN  /\ stmt.kind = "raise"
           /\ ret' = [ret EXCEPT !.raised = stmt.dst]
    /\ pc' = "raised"
    /\ UNCHANGED <<args, chunker, result>>

\* the call returns after its last statement
FrameReturn ==
    /\ pc \in {"call", "run"}
    /\ ret.at > Len(FrameProgram(args.fn, args.cfg))
    /\ pc' = "returned"
    /\ UNCHANGED <<args, chunker, result, ret>>

NextFrame ==
    \/ FrameExec
    \/ FrameRaise
    \/ FrameReturn

SpecFrame == InitFrame /\ [][NextFrame]_vars

\* C20: during and after every call, one that raises included, no statement
\* has written into the storage of the caller's x or of the caller's
\* adjacency (indices and weights).
C20_InputsAreNeverWritten ==
    \A st \in InputStorages : ret.heap[st] = {}

\* C20 witness: weighted_medoid has returned for a dense adjacency; A_cpu_dense
\* was the caller's tensor itself, the two in-place assignments went into the
\* storages of `distances`, and the inputs are as they were.
C20_Witness ==
    /\ pc = "returned"
    /\ args.fn = "weighted_medoid"
    /\ ~args.cfg.sparse
    /\ ret.env["A_cpu_dense"] = ret.env["A"]
    /\ ret.heap[<<491, "distances">>] = {492}
    /\ ret.heap[<<493, "distances">>] = {494}
    /\ \A st \in InputStorages : ret.heap[st] = {}

(***************************************************************************)
(* The top-k selector called twice on the same input, another call in       *)
(* between.                                                                 *)
(***************************************************************************)
RepN == 3             \* repeated calls: number of nodes n
RepMaxEdges == 2      \* repeated calls: most entries of the edge list
RepMaxK == 2          \* repeated calls: largest k

NoRepeat == [first |-> NoRet, between |-> NoRet, second |-> NoRet]

InitRepeat ==
    /\ pc = "ready"
    /\ args \in [n : {RepN}, k : 1..RepMaxK, edges : EdgeLists(RepN, RepMaxEdges)]
    /\ chunker = NoChunker
    /\ result = <<>>
    /\ ret = NoRepeat

\* _sparse_top_k(A_indices, A_values, n, k, return_sparse=False), first call
RepeatFirst ==
    /\ pc = "ready"
    /\ \E junk \in {0, 1} :
          ret' = [ret EXCEPT !.first =
                      SparseTopK(args.edges, args.n, args.k, FALSE, junk)]
    /\ pc' = "first"
    /\ UNCHANGED <<args, chunker, result>>

\* another call in between: _sparse_top_k(..., return_sparse=True)
RepeatBetween ==
    /\ pc = "first"
    /\ \E junk \in {0, 1} :
          ret' = [ret EXCEPT !.between =
                      SparseTopK(args.edges, args.n, args.k, TRUE, junk)]
    /\ pc' = "between"
    /\ UNCHANGED <<args, chunker, result>>

\* the first call again, on the same tensors
RepeatSecond ==
    /\ pc = "between"
    /\ \E junk \in {0, 1} :
          ret' = [ret EXCEPT !.second =
                      SparseTopK(args.edges, args.n, args.k, FALSE, junk)]
    /\ pc' = "done"
    /\ UNCHANGED <<args, chunker, result>>

NextRepeat ==
    \/ RepeatFirst
    \/ RepeatBetween
    \/ RepeatSecond

SpecRepeat == InitRepeat /\ [][NextRepeat]_vars

\* C21: two calls of the top-k selector with identical inputs, another call
\* in between, return identical outputs.
C21_RepeatedCallsAgree ==
    pc = "done" => ret.second = ret.first

(***************************************************************************)
(* partial_distance_matrix, statement by statement.  partial_idx is a       *)
(* function row -> sequence of k indices, -1 for no index; a flat position  *)
(* p in 1..n*k*k stands for the slot (i, a, b) of the [n, k, k] view.       *)
(***************************************************************************)
PdmN == 3             \* partial_distance_matrix: number of nodes n
PdmK == 2             \* partial_distance_matrix: width k of partial_idx

RECURSIVE SortedSeqOf(_)
\* the elements of a set of integers in ascending order
SortedSeqOf(S) ==
    IF S = {} THEN <<>>
    ELSE LET m == CHOOSE v \in S : \A w \in S : v <= w
         IN  <<m>> \o SortedSeqOf(S \ {m})

\* the slot (i, a, b) of the flat position p
SlotOf(p, k) ==
    [i |-> (p - 1) \div (k * k), a |-> (((p - 1) \div k) % k) + 1, b |-> ((p - 1) % k) + 1]

\* partial_idx[:, None, :].expand(n, k, k).flatten() at the flat position p:
\* the index in slot b of the row
IdxRow(partial_idx, k, p) == partial_idx[SlotOf(p, k).i][SlotOf(p, k).b]

\* A variant of idx_column without transpose(1, 2): the same as idx_row.
IdxColumnUntransposed(partial_idx, k, p) == partial_idx[SlotOf(p, k).i][SlotOf(p, k).b]

\* partial_idx[:, None, :].expand(n, k, k).transpose(1, 2).flatten() at the
\* flat position p: the index in slot a of the row
IdxColumn(partial_idx, k, p) == partial_idx[SlotOf(p, k).i][SlotOf(p, k).a]

\* A variant of the linear index without the symmetry_mask swap: the pair is
\* coded as read.
LinearIndexUnordered(idx_row, idx_column, n) == idx_row * n + idx_column

\* symmetry_mask = idx_column < idx_row, the swap of the two where it holds,
\* and linear_index = idx_row * n + idx_column
LinearIndex(idx_row, idx_column, n) ==
    IF idx_column < idx_row THEN idx_column * n + idx_row
    ELSE idx_row * n + idx_column

\* partial_distance_matrix(x, partial_idx)
PartialDistanceMatrix(x, n, k, partial_idx) ==
    LET flat == 1..(n * k * k)
        idx_row == [p \in flat |-> IdxRow(partial_idx, k, p)]
        idx_column == [p \in flat |-> IdxColumn(partial_idx, k, p)]
        missing_mask == [p \in flat |-> idx_row[p] # -1 /\ idx_column[p] # -1]
        \* idx_row[missing_mask], idx_column[missing_mask]
        kept == SelectSeq([p \in flat |-> p], LAMBDA p : missing_mask[p])
        linear_index ==
            [q \in DOMAIN kept |-> LinearIndex(idx_row[kept[q]], idx_column[kept[q]], n)]
        \* torch.unique(linear_index, return_inverse=True): sorted, distinct
        distance_matrix_idx == SortedSeqOf({linear_index[q] : q \in DOMAIN kept})
        unique_reverse_index ==
            [q \in DOMAIN kept |->
                CHOOSE u \in DOMAIN distance_matrix_idx :
                    distance_matrix_idx[u] = linear_index[q]]
        \* torch.norm(x[distance_matrix_idx // n] - x[distance_matrix_idx % n], dim=1)
        sparse_distances ==
            [u \in DOMAIN distance_matrix_idx |->
                Norm2(x, distance_matrix_idx[u] \div n, distance_matrix_idx[u] % n)]
        \* out = zeros(n * k * k); out[missing_mask] = sparse_distances[unique_reverse_index]
        RankOf(p) == Cardinality({q \in DOMAIN kept : kept[q] <= p})
        out == [p \in flat |->
                   IF missing_mask[p] THEN sparse_distances[unique_reverse_index[RankOf(p)]]
                   ELSE 0]
    IN  [status |-> "ok",
         \* out.view(n, k, k), with the intermediate tensors of the call
         value |-> [out |-> [i \in 0..(n - 1) |->
                               [a \in 1..k |-> [b \in 1..k |-> out[i * k * k + (a - 1) * k + b]]]],
                    linear_index |-> linear_index,
                    distance_matrix_idx |-> distance_matrix_idx,
                    unique_reverse_index |-> unique_reverse_index,
                    kept |-> kept]]

\* scalar features 0, 1 or 3, node 0 at 0: the three distances between
\* different values differ
PdmFeatures(n) == {x \in [0..(n - 1) -> {<<0>>, <<1>>, <<3>>}] : x[0] = <<0>>}

InitPdm ==
    /\ pc = "ready"
    /\ args \in [n : {PdmN}, k : {PdmK}, x : PdmFeatures(PdmN),
                 partial_idx : [0..(PdmN - 1) -> [1..PdmK -> -1..(PdmN - 1)]]]
    /\ chunker = NoChunker
    /\ result = <<>>
    /\ ret = NoRet

\* partial_distance_matrix(x, partial_idx)
CallPartialDistanceMatrix ==
    /\ pc = "ready"
    /\ ret' = PartialDistanceMatrix(args.x, args.n, args.k, args.partial_idx)
    /\ pc' = "done"
    /\ UNCHANGED <<args, chunker, result>>

NextPdm == CallPartialDistanceMatrix

SpecPdm == InitPdm /\ [][NextPdm]_vars

\* C22: partial_distance_matrix succeeds, rows or a whole matrix of -1
\* included; out[i, a, b] is the distance of x[idx[i, a]] and x[idx[i, b]] when
\* neither index is -1 and 0 otherwise; out is symmetric in (a, b) and its
\* diagonal is 0.
C22_PartialDistancesOfIndexedPairs ==
    pc = "done" =>
        /\ ret.status = "ok"
        /\ \A i \in 0..(args.n - 1) : \A a \in 1..args.k, b \in 1..args.k :
              LET u == args.partial_idx[i][a]
                  v == args.partial_idx[i][b]
              IN  /\ (u # -1 /\ v # -1) =>
                        ret.value.out[i][a][b] = Abs(args.x[u][1] - args.x[v][1])
                  /\ (u = -1 \/ v = -1) => ret.value.out[i][a][b] = 0
                  /\ ret.value.out[i][a][b] = ret.value.out[i][b][a]
                  /\ ret.value.out[i][a][a] = 0

\* C22 witness: the call returned for an index matrix with a row of -1 only, a
\* row with one -1 and a row of two nodes at different features, whose
\* distance is in both off-diagonal slots.
C22_Witness ==
    /\ pc = "done"
    /\ ret.status = "ok"
    /\ \E i \in 0..(args.n - 1) : \A a \in 1..args.k : args.partial_idx[i][a] = -1
    /\ \E i \in 0..(args.n - 1) :
          args.partial_idx[i][1] # -1 /\ args.partial_idx[i][2] = -1
    /\ \E i \in 0..(args.n - 1) :
          /\ args.partial_idx[i][1] # -1 /\ args.partial_idx[i][2] # -1
          /\ args.partial_idx[i][1] > args.partial_idx[i][2]
          /\ ret.value.out[i][1][2] > 0
          /\ ret.value.out[i][2][1] = ret.value.out[i][1][2]

\* the unordered pairs, as <<min, max>>, of non-sentinel indices that occur
\* together in a row of partial_idx
CoOccurringPairs(partial_idx, n, k) ==
    {<<u, v>> \in (0..(n - 1)) \X (0..(n - 1)) :
        /\ u <= v
        /\ \E i \in 0..(n - 1) : \E a \in 1..k, b \in 1..k :
              partial_idx[i][a] = u /\ partial_idx[i][b] = v}

\* C23: min(a, b) * n + max(a, b) differs for different unordered pairs and
\* (code // n, code % n) gives back (min, max); each unordered pair that occurs
\* in a row is computed exactly once; every filled slot of the output reads the
\* distance of its own pair.
C23_EachPairComputedOnce ==
    pc = "done" =>
        LET n == args.n
            v == ret.value
            pairs == CoOccurringPairs(args.partial_idx, n, args.k)
        IN  /\ \A c \in (0..(n - 1)) \X (0..(n - 1)), d \in (0..(n - 1)) \X (0..(n - 1)) :
                  (c[1] <= c[2] /\ d[1] <= d[2] /\ c # d) =>
                      c[1] * n + c[2] # d[1] * n + d[2]
            /\ Len(v.distance_matrix_idx) = Cardinality(pairs)
            /\ \A u \in DOMAIN v.distance_matrix_idx :
                  <<v.distance_matrix_idx[u] \div n, v.distance_matrix_idx[u] % n>> \in pairs
            /\ \A q \in DOMAIN v.kept :
                  LET s == SlotOf(v.kept[q], args.k)
                      code == v.distance_matrix_idx[v.unique_reverse_index[q]]
                  IN  {code \div n, code % n} =
                          {args.partial_idx[s.i][s.a], args.partial_idx[s.i][s.b]}

\* C23 witness: the call returned for an index matrix in which the pair of two
\* different nodes occurs in both orders, in different rows, and was computed
\* once, next to at least one more pair.
C23_Witness ==
    /\ pc = "done"
    /\ \E i \in 0..(args.n - 1), j \in 0..(args.n - 1) :
          /\ i # j
          /\ args.partial_idx[i][1] # -1
          /\ args.partial_idx[i][1] < args.partial_idx[i][2]
          /\ args.partial_idx[j][1] = args.partial_idx[i][2]
          /\ args.partial_idx[j][2] = args.partial_idx[i][1]
          /\ Cardinality({u \in DOMAIN ret.value.distance_matrix_idx :
                 ret.value.distance_matrix_idx[u] =
                     args.partial_idx[i][1] * args.n + args.partial_idx[i][2]}) = 1
    /\ Len(ret.value.distance_matrix_idx) > 3

(***************************************************************************)
(* The sparse path of soft_weighted_medoid_k_neighborhood up to the        *)
(* softmax, one action per step: the placeholder step, _sparse_top_k, and  *)
(* the weighted distances with their sentinel slots set to max.            *)
(***************************************************************************)
PhN == 3              \* placeholder step: number of nodes n
PhMaxNnz == 2         \* placeholder step: most nonzero entries of the adjacency

NoPlaceholder == [edges |-> <<>>, top |-> NoRet, distances_top_k |-> <<>>]

InitPlaceholder ==
    /\ pc = "ready"
    /\ args \in [n : {PhN}, A : Adjs(PhN, PhMaxNnz), x : SoftFeatures(PhN), k : 1..PhN]
    /\ chunker = NoChunker
    /\ result = <<>>
    /\ ret = NoPlaceholder

\* A.coo() and the placeholder step
PlaceholderStep ==
    /\ pc = "ready"
    /\ ret' = [ret EXCEPT !.edges = WithMissingRows(Coo(args.A, args.n), args.n)]
    /\ pc' = "placed"
    /\ UNCHANGED <<args, chunker, result>>

\* _sparse_top_k(A_indices, A_values, n, k=k, return_sparse=False)
PlaceholderTopK ==
    /\ pc = "placed"
    /\ \E junk \in {0, 1} :
          ret' = [ret EXCEPT !.top = SparseTopK(ret.edges, args.n, args.k, FALSE, junk)]
    /\ pc' = "selected"
    /\ UNCHANGED <<args, chunker, result>>

\* partial_distance_matrix, the product with the weights and the two
\* assignments of max
PlaceholderDistances ==
    /\ pc = "selected"
    /\ ret.top.status = "ok"
    /\ ret' = [ret EXCEPT !.distances_top_k =
                  [i \in 0..(args.n - 1) |->
                      DistancesTopK(ret.top.value, args.x, args.n, args.k, i)]]
    /\ pc' = "masked"
    /\ UNCHANGED <<args, chunker, result>>

NextPlaceholder ==
    \/ PlaceholderStep
    \/ PlaceholderTopK
    \/ PlaceholderDistances

SpecPlaceholder == InitPlaceholder /\ [][NextPlaceholder]_vars

\* C24: on the sparse path, after the placeholder step every row index in
\* 0..n-1 occurs in the edge list; hence for k >= 1 every row of the top-k index
\* matrix has an index that is not -1, and no row has all its candidate
\* distances set to max before the softmax.
C24_EveryRowKeepsACandidate ==
    /\ pc \in {"placed", "selected", "masked"} =>
          \A i \in 0..(args.n - 1) : \E p \in DOMAIN ret.edges : ret.edges[p].row = i
    /\ pc \in {"selected", "masked"} =>
          /\ ret.top.status = "ok"
          /\ \A i \in 0..(args.n - 1) : \E a \in 1..args.k : ret.top.value.indices[i][a] # -1
    /\ pc = "masked" =>
          \A i \in 0..(args.n - 1) : \E a \in 1..args.k : ret.distances_top_k[i][a] # FMAX

\* C24 witness: the distances are computed for an adjacency with a row without
\* entries before a row with entries; the empty row got a placeholder and has
\* a candidate whose distance is not max.
C24_Witness ==
    /\ pc = "masked"
    /\ \E i \in 0..(args.n - 1), j \in 0..(args.n - 1) :
          /\ i < j
          /\ \A c \in 0..(args.n - 1) : args.A[i][c] = 0
          /\ \E c \in 0..(args.n - 1) : args.A[j][c] # 0
          /\ \E p \in DOMAIN ret.edges : ret.edges[p] = [row |-> i, col |-> 0, val |-> 0]
          /\ ret.distances_top_k[i][1] # FMAX

(***************************************************************************)
(* GCN: the cache of the preprocessed adjacency.                            *)
(*                                                                         *)
(* args holds the constructor arguments, ret the module state (training,   *)
(* adj_preped), result the log of the forward passes and release_cache     *)
(* calls made so far.  A graph is named by an identifier; the preprocessed *)
(* adjacency is a record of the graph it was computed from and of what was *)
(* done to it.                                                             *)
(***************************************************************************)
MaxPasses == 3        \* GCN cache: most logged forward passes and release_cache calls

Graphs == {"g1", "g2"}

None == [none |-> TRUE]

\* _preprocess_adjacency_matrix(x, edge_idx, edge_weight): GDC (standing for
\* the three preprocessings), then either the NotImplementedError of
\* checkpointing without sparse tensors or _convert_and_normalize.
PreprocessAdjacencyMatrix(self, graph, requires_grad) ==
    IF self.do_checkpoint /\ requires_grad /\ ~self.do_use_sparse_tensor
    THEN [status |-> "raised", value |-> None]
    ELSE [status |-> "ok",
          value |-> [graph |-> graph,
                     gdc |-> self.gdc_params # "None",
                     normalized |-> self.do_normalize_adj_once,
                     sparse_tensor |-> self.do_use_sparse_tensor]]

\* A variant of the storing condition without `self.training`: an eval-mode
\* pass stores what it computed too.
StoresAdjPrepedAnyMode(self, training) ==
    /\ self.do_cache_adj_prep
    /\ (self.gdc_params # "None" \/ self.do_normalize_adj_once \/ self.do_use_sparse_tensor)

\* the condition under which _cache_if_option_is_set stores what it computed
StoresAdjPreped(self, training) ==
    /\ training
    /\ self.do_cache_adj_prep
    /\ (self.gdc_params # "None" \/ self.do_normalize_adj_once \/ self.do_use_sparse_tensor)

\* _cache_if_option_is_set(self._preprocess_adjacency_matrix, x, edge_idx,
\* edge_weight): what the forward pass uses, whether the preprocessing ran,
\* and self.adj_preped afterwards
CacheIfOptionIsSet(self, training, adj_preped, graph, requires_grad) ==
    IF training /\ adj_preped # None
    THEN [status |-> "ok", computed |-> FALSE, used |-> adj_preped, adj_preped |-> adj_preped]
    ELSE LET r == PreprocessAdjacencyMatrix(self, graph, requires_grad)
         IN  [status |-> r.status, computed |-> TRUE, used |-> r.value,
              adj_preped |-> IF r.status = "ok" /\ StoresAdjPreped(self, training)
                             THEN r.value ELSE adj_preped]

\* GCN(...): nn.Module starts in training mode, self.adj_preped = None
InitCache ==
    /\ pc = "ready"
    /\ args \in [do_cache_adj_prep : BOOLEAN, gdc_params : {"None", "set"},
                 do_normalize_adj_once : BOOLEAN, do_use_sparse_tensor : BOOLEAN,
                 do_checkpoint : BOOLEAN]
    /\ chunker = NoChunker
    /\ result = <<>>
    /\ ret = [training |-> TRUE, adj_preped |-> None]

\* gcn(attr, adj): GCN.forward up to the layers
Forward ==
    /\ pc = "ready"
    /\ Len(result) < MaxPasses
    /\ \E graph \in Graphs, requires_grad \in BOOLEAN :
          LET r == CacheIfOptionIsSet(args, ret.training, ret.adj_preped, graph, requires_grad)
          IN  /\ ret' = [ret EXCEPT !.adj_preped = r.adj_preped]
              /\ result' = Append(result,
                     [op |-> "forward", training |-> ret.training, graph |-> graph,
                      requires_grad |-> requires_grad, status |-> r.status,
                      computed |-> r.computed, used |-> r.used,
                      before |-> ret.adj_preped, after |-> r.adj_preped])
    /\ UNCHANGED <<pc, args, chunker>>

\* gcn.train()
Train ==
    /\ pc = "ready"
    /\ ~ret.training
    /\ ret' = [ret EXCEPT !.training = TRUE]
    /\ UNCHANGED <<pc, args, chunker, result>>

\* gcn.eval()
Eval ==
    /\ pc = "ready"
    /\ ret.training
    /\ ret' = [ret EXCEPT !.training = FALSE]
    /\ UNCHANGED <<pc, args, chunker, result>>

\* gcn.release_cache()
ReleaseCache ==
    /\ pc = "ready"
    /\ Len(result) < MaxPasses
    /\ ret' = [ret EXCEPT !.adj_preped = None]
    /\ result' = Append(result, [op |-> "release_cache"])
    /\ UNCHANGED <<pc, args, chunker>>

NextCache ==
    \/ Forward
    \/ Train
    \/ Eval
    \/ ReleaseCache

SpecCache == InitCache /\ [][NextCache]_vars

\* the training-mode forward passes before position q of the log with no
\* release_cache between them and q
TrainingPassesBefore(log, q) ==
    {p \in 1..(q - 1) :
        /\ log[p].op = "forward" /\ log[p].training
        /\ \A m \in p..q : log[m].op # "release_cache"}

\* those of them that returned
CompletedTrainingPassesBefore(log, q) ==
    {p \in TrainingPassesBefore(log, q) : log[p].status = "ok"}

C26_NoAdjacencyOfAnotherGraph ==
    \A q \in DOMAIN result :
        (result[q].op = "forward" /\ result[q].status = "ok") =>
            /\ ~result[q].training =>
                  /\ result[q].computed
                  /\ result[q].used.graph = result[q].graph
                  /\ result[q].after = result[q].before
            /\ (q > 1 /\ result[q - 1].op = "release_cache") =>
                  result[q].computed /\ result[q].used.graph = result[q].graph
            /\ result[q].used.graph = result[q].graph

(***************************************************************************)
(* GCN and RGNN: the convolution layers the constructor builds and the     *)
(* path their aggregation takes in a forward pass.  ret.layers is          *)
(* self.layers (the convolution of each nn.Sequential), result the path    *)
(* each layer took so far.                                                 *)
(***************************************************************************)
MaxFilters == 2       \* model construction: most hidden layers (len(n_filters))

DefaultDoChunk == FALSE     \* ChainableGCNConv.__init__: do_chunk: bool = False
DefaultNChunks == 8         \* ChainableGCNConv.__init__: n_chunks: int = 8

NChunksArgs == {2, DefaultNChunks}

\* ChainableGCNConv(do_chunk, n_chunks, in_channels=..., out_channels=...)
ChainableGCNConv(do_chunk, n_chunks) ==
    [class |-> "ChainableGCNConv", do_chunk |-> do_chunk, n_chunks |-> n_chunks]

\* RGNNConv(mean=..., mean_kwargs=..., in_channels=..., out_channels=...):
\* super().__init__(**kwargs) with the kwargs it was given
RGNNConv(mean, do_chunk, n_chunks) ==
    [class |-> "RGNNConv", do_chunk |-> do_chunk, n_chunks |-> n_chunks, mean |-> mean]

\* self._build_conv_layer(in_channels, out_channels) of GCN and of RGNN
BuildConvLayer(self) ==
    IF self.class = "GCN"
    THEN ChainableGCNConv(self.do_checkpoint, self.n_chunks)
    ELSE RGNNConv(self.mean, DefaultDoChunk, DefaultNChunks)

\* self._build_layers(): one convolution per hidden layer and one for the
\* output
BuildLayers(self) == [idx \in 1..(self.n_filters + 1) |-> BuildConvLayer(self)]

\* ChainableGCNConv.message_and_aggregate and RGNNConv.propagate: the path
\* the aggregation of a layer takes for an adjacency that is a SparseTensor
\* or not
AggregationPath(layer, is_sparse_tensor) ==
    IF layer.class = "ChainableGCNConv"
    THEN IF ~layer.do_chunk \/ ~is_sparse_tensor
         THEN [via |-> "GCNConv.message_and_aggregate", n_chunks |-> 0]
         ELSE [via |-> "chunked_message_and_aggregate", n_chunks |-> layer.n_chunks]
    ELSE IF ~is_sparse_tensor THEN [via |-> "mean", n_chunks |-> 0]
         ELSE IF layer.do_chunk
              THEN [via |-> "chunked_message_and_aggregate", n_chunks |-> layer.n_chunks]
              ELSE [via |-> "aggregate", n_chunks |-> 0]

InitBuild ==
    /\ pc = "ready"
    /\ args \in [class : {"GCN", "RGNN"}, mean : {"soft_k_medoid"}, n_filters : 1..MaxFilters,
                 do_checkpoint : BOOLEAN, n_chunks : NChunksArgs,
                 do_use_sparse_tensor : BOOLEAN]
    /\ chunker = NoChunker
    /\ result = <<>>
    /\ ret = [layers |-> <<>>]

\* GCN(...) or RGNN(...): self.layers = self._build_layers()
Construct ==
    /\ pc = "ready"
    /\ ret' = [ret EXCEPT !.layers = BuildLayers(args)]
    /\ pc' = "built"
    /\ UNCHANGED <<args, chunker, result>>

\* one turn of `for layer in self.layers: x = layer((x, edge_idx, edge_weight))`;
\* the adjacency is a SparseTensor when do_use_sparse_tensor is set
LayerForward ==
    /\ pc = "built"
    /\ Len(result) < Len(ret.layers)
    /\ result' = Append(result,
           AggregationPath(ret.layers[Len(result) + 1], args.do_use_sparse_tensor))
    /\ UNCHANGED <<pc, args, chunker, ret>>

NextBuild ==
    \/ Construct
    \/ LayerForward

SpecBuild == InitBuild /\ [][NextBuild]_vars

\* C27: a model built with do_checkpoint=True and n_chunks=c has only
\* convolution layers with do_chunk=True and n_chunks=c, and their aggregation
\* over a SparseTensor adjacency goes through chunked_message_and_aggregate;
\* for GCN and for RGNN.
C27_CheckpointedModelsChunk ==
    (pc = "built" /\ args.do_checkpoint) =>
        /\ \A idx \in DOMAIN ret.layers :
              ret.layers[idx].do_chunk /\ ret.layers[idx].n_chunks = args.n_chunks
        /\ args.do_use_sparse_tensor =>
              \A idx \in DOMAIN result :
                  /\ result[idx].via = "chunked_message_and_aggregate"
                  /\ result[idx].n_chunks = args.n_chunks

(***************************************************************************)
(* FGSM: the greedy attack on a dense adjacency.                            *)
(*                                                                         *)
(* args.adj is self.adj; ret holds self.adj_perturbed, self.n_perturbations *)
(* and the locals of the running _attack call; result is the log of the    *)
(* calls that ended.  The gradient of each iteration is an input.          *)
(***************************************************************************)
FgsmN == 3            \* FGSM: number of nodes n
MaxBudget == 2        \* FGSM: largest n_perturbations passed to _attack
MaxCalls == 3         \* FGSM: most _attack calls

Nodes(n) == 0..(n - 1)

\* the symmetric 0/1 adjacencies with zero diagonal
SymmetricAdjs(n) ==
    {A \in [Nodes(n) -> [Nodes(n) -> {0, 1}]] :
        \A r \in Nodes(n) : A[r][r] = 0 /\ \A c \in Nodes(n) : A[r][c] = A[c][r]}

\* the values of torch.autograd.grad(loss, self.adj_perturbed)[0]
Gradients(n) == [Nodes(n) -> [Nodes(n) -> {-1, 1}]]

\* A variant of the assertion of _attack that lets the budget stay as it is.
AssertionHoldsNonStrict(n_perturbations, previous) == n_perturbations >= previous

\* assert n_perturbations > self.n_perturbations
AssertionHolds(n_perturbations, previous) == n_perturbations > previous

\* gradient[self.adj != self.adj_perturbed] = 0
\* gradient *= 2 * (0.5 - self.adj_perturbed)
MaskedGradient(gradient, adj, adj_perturbed, n) ==
    [r \in Nodes(n) |-> [c \in Nodes(n) |->
        IF adj[r][c] # adj_perturbed[r][c] THEN 0
        ELSE gradient[r][c] * (1 - 2 * adj_perturbed[r][c])]]

\* maximum = torch.max(gradient); edge_pert = (maximum == gradient).nonzero();
\* edge_pert[0]: the first entry, in row-major order, that holds the maximum
EdgePert(gradient, n) ==
    LET maximum == CHOOSE m \in {gradient[r][c] : r \in Nodes(n), c \in Nodes(n)} :
                       \A r \in Nodes(n), c \in Nodes(n) : gradient[r][c] <= m
        hits == {e \in Nodes(n) \X Nodes(n) : gradient[e[1]][e[2]] = maximum}
    IN  CHOOSE e \in hits : \A f \in hits : e[1] * n + e[2] <= f[1] * n + f[2]

\* new_edge_value = -self.adj_perturbed[r, c] + 1, written to [r, c] and [c, r]
FlipEdge(adj_perturbed, e) ==
    LET new_edge_value == -adj_perturbed[e[1]][e[2]] + 1
        first == [adj_perturbed EXCEPT ![e[1]][e[2]] = new_edge_value]
    IN  [first EXCEPT ![e[2]][e[1]] = new_edge_value]

\* FGSM(adj, ...): self.adj_perturbed = self.adj.clone(), self.n_perturbations = 0
InitFgsm ==
    /\ pc = "ready"
    /\ args \in [n : {FgsmN}, adj : SymmetricAdjs(FgsmN)]
    /\ chunker = NoChunker
    /\ result = <<>>
    /\ ret = [adj_perturbed |-> args.adj, n_perturbations |-> 0,
              call |-> 0, before |-> 0, todo |-> 0, i |-> 0, flipped |-> <<>>]

\* _attack(n_perturbations) up to the loop: the assertion fails and the call
\* ends, or the budget is taken over
AttackEnter ==
    /\ pc = "ready"
    /\ Len(result) < MaxCalls
    /\ \E n_perturbations \in 0..MaxBudget :
          IF ~AssertionHolds(n_perturbations, ret.n_perturbations)
          THEN /\ result' = Append(result,
                      [status |-> "AssertionError", n_perturbations |-> n_perturbations,
                       before |-> ret.n_perturbations, after |-> ret.n_perturbations,
                       iterations |-> 0,
                       adj_before |-> ret.adj_perturbed, adj_after |-> ret.adj_perturbed])
               /\ UNCHANGED <<pc, ret>>
          ELSE /\ ret' = [ret EXCEPT
                      !.call = n_perturbations,
                      !.before = ret.n_perturbations,
                      !.todo = n_perturbations - ret.n_perturbations,
                      !.n_perturbations = ret.n_perturbations
                                              + (n_perturbations - ret.n_perturbations),
                      !.i = 0]
               /\ pc' = "loop"
               /\ UNCHANGED result
    /\ UNCHANGED <<args, chunker>>

\* one turn of `for i in range(n_perturbations)`
AttackIteration ==
    /\ pc = "loop"
    /\ ret.i < ret.todo
    /\ \E gradient \in Gradients(args.n) :
          LET e == EdgePert(MaskedGradient(gradient, args.adj, ret.adj_perturbed, args.n),
                            args.n)
          IN  ret' = [ret EXCEPT !.adj_perturbed = FlipEdge(ret.adj_perturbed, e),
                                 !.i = ret.i + 1,
                                 !.flipped = Append(ret.flipped, e)]
    /\ UNCHANGED <<pc, args, chunker, result>>

\* the loop is over: self.adj_adversary is set and the call returns
AttackReturn ==
    /\ pc = "loop"
    /\ ret.i = ret.todo
    /\ result' = Append(result,
           [status |-> "ok", n_perturbations |-> ret.call,
            before |-> ret.before, after |-> ret.n_perturbations,
            iterations |-> ret.i,
            adj_before |-> IF result = <<>> THEN args.adj ELSE result[Len(result)].adj_after,
            adj_after |-> ret.adj_perturbed])
    /\ pc' = "ready"
    /\ UNCHANGED <<args, chunker, ret>>

NextFgsm ==
    \/ AttackEnter
    \/ AttackIteration
    \/ AttackReturn

SpecFgsm == InitFgsm /\ [][NextFgsm]_vars

\* C28: _attack(n) fails its assertion exactly when n is not above the
\* perturbations already applied, and then leaves adj_perturbed and
\* n_perturbations as they were; otherwise it runs n minus the previous count
\* iterations and ends with n_perturbations = n; over the successful calls
\* n_perturbations strictly increases.
C28_CumulativeBudget ==
    /\ \A q \in DOMAIN result :
          /\ (result[q].status = "AssertionError") <=> (result[q].n_perturbations <= result[q].before)
          /\ result[q].status = "AssertionError" =>
                result[q].after = result[q].before /\ result[q].adj_after = result[q].adj_before
          /\ result[q].status = "ok" =>
                /\ result[q].iterations = result[q].n_perturbations - result[q].before
                /\ result[q].after = result[q].n_perturbations
                /\ result[q].after > result[q].before
    /\ \A p \in DOMAIN result, q \in DOMAIN result :
          (p < q /\ result[p].status = "ok" /\ result[q].status = "ok") =>
              result[p].after < result[q].after
    /\ pc = "ready" =>
          ret.n_perturbations = IF result = <<>> THEN 0 ELSE result[Len(result)].after

\* C28 witness: a successful call, a call with the same budget that failed its
\* assertion, and a successful call with a larger budget.
C28_Witness ==
    /\ Len(result) = 3
    /\ result[1].status = "ok" /\ result[1].iterations = 1
    /\ result[2].status = "AssertionError"
    /\ result[2].n_perturbations = result[1].n_perturbations
    /\ result[3].status = "ok" /\ result[3].iterations = 1
    /\ ret.n_perturbations = 2

\* the unordered node pairs in which two adjacencies differ
DifferingPairs(A, B, n) ==
    {e \in Nodes(n) \X Nodes(n) : e[1] <= e[2] /\ A[e[1]][e[2]] # B[e[1]][e[2]]}

\* C29: between _attack calls adj_perturbed is symmetric and 0/1, has the
\* diagonal of adj and differs from adj in exactly n_perturbations unordered
\* pairs; no pair is flipped twice.
C29_EachIterationFlipsANewPair ==
    pc = "ready" =>
        /\ \A r \in Nodes(args.n), c \in Nodes(args.n) :
              /\ ret.adj_perturbed[r][c] \in {0, 1}
              /\ ret.adj_perturbed[r][c] = ret.adj_perturbed[c][r]
        /\ \A r \in Nodes(args.n) : ret.adj_perturbed[r][r] = args.adj[r][r]
        /\ Cardinality(DifferingPairs(ret.adj_perturbed, args.adj, args.n)) = ret.n_perturbations
        /\ \A p \in DOMAIN ret.flipped, q \in DOMAIN ret.flipped :
              p # q => {ret.flipped[p][1], ret.flipped[p][2]} # {ret.flipped[q][1], ret.flipped[q][2]}

(***************************************************************************)
(* The evasion-transfer experiment: run().                                  *)
(*                                                                         *)
(* An epsilon is an integer (0 for the unperturbed graph).  args holds     *)
(* `epsilons` and the epsilons for which the storage has an adjacency and  *)
(* an attribute artifact when run() starts; ret holds the locals of run(), *)
(* result is `results`.  An entry of adj_per_eps or attr_per_eps records   *)
(* the epsilon it belongs to and where it came from.                       *)
(***************************************************************************)
MaxEpsilons == 3      \* experiment: most entries of `epsilons`
MaxEpsilon == 2       \* experiment: largest epsilon

EpsilonLists == UNION {[1..m -> 0..MaxEpsilon] : m \in 1..MaxEpsilons}

\* the assertions on `epsilons`: sorted, unique, non-negative
EpsilonsAccepted(epsilons) ==
    /\ \A p \in DOMAIN epsilons, q \in DOMAIN epsilons : p < q => epsilons[p] <= epsilons[q]
    /\ Cardinality({epsilons[p] : p \in DOMAIN epsilons}) = Len(epsilons)
    /\ \A p \in DOMAIN epsilons : epsilons[p] >= 0

\* A variant of the branch for a missing artifact that keeps what was loaded
\* before and only leaves the loop.
OnMissingArtifactKeepLoaded(per_eps) == per_eps

\* adj_per_eps = []; attr_per_eps = [] before the break
OnMissingArtifact(per_eps) == <<>>

Entry(epsilon, from) == [epsilon |-> epsilon, from |-> from]

InitRun ==
    /\ pc = "ready"
    /\ args \in [epsilons : EpsilonLists,
                 pert_adj : SUBSET (1..MaxEpsilon), pert_attr : SUBSET (1..MaxEpsilon)]
    /\ chunker = NoChunker
    /\ result = <<>>
    /\ ret = [adj_per_eps |-> <<>>, attr_per_eps |-> <<>>, pos |-> 0,
              tmp_epsilons |-> <<>>, attacked |-> FALSE,
              saved_adj |-> {}, saved_attr |-> {}]

\* the assertions at the start of run()
RunAssert ==
    /\ pc = "ready"
    /\ pc' = IF EpsilonsAccepted(args.epsilons) THEN "load" ELSE "raised"
    /\ ret' = [ret EXCEPT !.pos = 1]
    /\ UNCHANGED <<args, chunker, result>>

\* one turn of the loading loop `for epsilon in epsilons`
RunLoad ==
    /\ pc = "load"
    /\ ret.pos <= Len(args.epsilons)
    /\ LET epsilon == args.epsilons[ret.pos]
       IN  IF epsilon = 0
           THEN ret' = [ret EXCEPT !.pos = ret.pos + 1]
           ELSE IF epsilon \notin args.pert_adj \/ epsilon \notin args.pert_attr
                THEN ret' = [ret EXCEPT !.adj_per_eps = OnMissingArtifact(ret.adj_per_eps),
                                        !.attr_per_eps = OnMissingArtifact(ret.attr_per_eps),
                                        !.pos = Len(args.epsilons) + 1]
                ELSE ret' = [ret EXCEPT
                                !.adj_per_eps = Append(ret.adj_per_eps, Entry(epsilon, "storage")),
                                !.attr_per_eps = Append(ret.attr_per_eps, Entry(epsilon, "storage")),
                                !.pos = ret.pos + 1]
    /\ UNCHANGED <<pc, args, chunker, result>>

\* `if len(adj_per_eps) == 0:` the surrogate is trained and tmp_epsilons is
\* built, with a leading 0
RunLoaded ==
    /\ pc = "load"
    /\ ret.pos > Len(args.epsilons)
    /\ IF Len(ret.adj_per_eps) = 0
       THEN /\ ret' = [ret EXCEPT
                          !.attacked = TRUE,
                          !.tmp_epsilons = IF args.epsilons[1] # 0 THEN <<0>> \o args.epsilons
                                           ELSE args.epsilons,
                          !.pos = 1]
            /\ pc' = "attack"
       ELSE /\ pc' = "insert"
            /\ UNCHANGED ret
    /\ UNCHANGED <<args, chunker, result>>

\* one turn of `for eps1, eps2 in zip(tmp_epsilons[:-1], tmp_epsilons[1:])`:
\* the attack, the two appends and the two save_artifact calls
RunAttack ==
    /\ pc = "attack"
    /\ ret.pos < Len(ret.tmp_epsilons)
    /\ LET eps2 == ret.tmp_epsilons[ret.pos + 1]
       IN  ret' = [ret EXCEPT
                      !.adj_per_eps = Append(ret.adj_per_eps, Entry(eps2, "attack")),
                      !.attr_per_eps = Append(ret.attr_per_eps, Entry(eps2, "attack")),
                      !.saved_adj = ret.saved_adj \union {eps2},
                      !.saved_attr = ret.saved_attr \union {eps2},
                      !.pos = ret.pos + 1]
    /\ UNCHANGED <<pc, args, chunker, result>>

\* the attack loop is over
RunAttacked ==
    /\ pc = "attack"
    /\ ret.pos >= Len(ret.tmp_epsilons)
    /\ pc' = "insert"
    /\ UNCHANGED <<args, chunker, result, ret>>

\* `if epsilons[0] == 0:` the unperturbed graph goes to the front
RunInsert ==
    /\ pc = "insert"
    /\ ret' = [ret EXCEPT
                  !.adj_per_eps = IF args.epsilons[1] = 0
                                  THEN <<Entry(0, "graph")>> \o ret.adj_per_eps
                                  ELSE ret.adj_per_eps,
                  !.attr_per_eps = IF args.epsilons[1] = 0
                                   THEN <<Entry(0, "graph")>> \o ret.attr_per_eps
                                   ELSE ret.attr_per_eps,
                  !.pos = 1]
    /\ pc' = "evaluate"
    /\ UNCHANGED <<args, chunker, result>>

\* one turn of `for eps, adj_perturbed, attr_perturbed in zip(epsilons,
\* adj_per_eps, attr_per_eps)` for one model
RunEvaluate ==
    /\ pc = "evaluate"
    /\ ret.pos <= Len(args.epsilons)
    /\ ret.pos <= Len(ret.adj_per_eps)
    /\ ret.pos <= Len(ret.attr_per_eps)
    /\ result' = Append(result, [epsilon |-> args.epsilons[ret.pos],
                                 adj_perturbed |-> ret.adj_per_eps[ret.pos],
                                 attr_perturbed |-> ret.attr_per_eps[ret.pos]])
    /\ ret' = [ret EXCEPT !.pos = ret.pos + 1]
    /\ UNCHANGED <<pc, args, chunker>>

\* zip is exhausted: run() returns
RunReturn ==
    /\ pc = "evaluate"
    /\ (ret.pos > Len(args.epsilons) \/ ret.pos > Len(ret.adj_per_eps)
            \/ ret.pos > Len(ret.attr_per_eps))
    /\ pc' = "done"
    /\ UNCHANGED <<args, chunker, result, ret>>

NextRun ==
    \/ RunAssert
    \/ RunLoad
    \/ RunLoaded
    \/ RunAttack
    \/ RunAttacked
    \/ RunInsert
    \/ RunEvaluate
    \/ RunReturn

SpecRun == InitRun /\ [][NextRun]_vars

\* the nonzero epsilons of the list all have both artifacts
AllArtifactsStored ==
    \A p \in DOMAIN args.epsilons :
        args.epsilons[p] # 0 =>
            args.epsilons[p] \in args.pert_adj /\ args.epsilons[p] \in args.pert_attr

\* C30: stored perturbed adjacencies are used only if every nonzero epsilon
\* has its artifacts; with one missing none is used and the attack runs for
\* every nonzero epsilon; either way the evaluated lists hold one adjacency and
\* one attribute entry per epsilon, in the order of `epsilons`, the unperturbed
\* graph with epsilon 0, and every epsilon is evaluated.
C30_OneEntryPerEpsilon ==
    /\ pc \in {"evaluate", "done"} =>
          /\ Len(ret.adj_per_eps) = Len(args.epsilons)
          /\ Len(ret.attr_per_eps) = Len(args.epsilons)
          /\ \A p \in DOMAIN args.epsilons :
                /\ ret.adj_per_eps[p].epsilon = args.epsilons[p]
                /\ ret.attr_per_eps[p].epsilon = args.epsilons[p]
                /\ (args.epsilons[p] = 0) <=> (ret.adj_per_eps[p].from = "graph")
                /\ (args.epsilons[p] = 0) <=> (ret.attr_per_eps[p].from = "graph")
                /\ args.epsilons[p] # 0 =>
                      /\ ret.adj_per_eps[p].from = ret.attr_per_eps[p].from
                      /\ ret.adj_per_eps[p].from =
                             IF AllArtifactsStored THEN "storage" ELSE "attack"
          /\ (\E p \in DOMAIN args.epsilons : args.epsilons[p] # 0) =>
                (ret.attacked <=> ~AllArtifactsStored)
    /\ pc = "done" =>
          /\ Len(result) = Len(args.epsilons)
          /\ \A p \in DOMAIN result :
                /\ result[p].epsilon = args.epsilons[p]
                /\ result[p].adj_perturbed.epsilon = args.epsilons[p]
                /\ result[p].attr_perturbed.epsilon = args.epsilons[p]

\* C30 witness: run() returned for a list of 0 and two nonzero epsilons, the
\* first of which had its artifacts and the second not: the attack ran for
\* both and the three evaluations are in order.
C30_Witness ==
    /\ pc = "done"
    /\ Len(args.epsilons) = 3
    /\ args.epsilons[1] = 0
    /\ args.epsilons[2] \in args.pert_adj /\ args.epsilons[2] \in args.pert_attr
    /\ args.epsilons[3] \notin args.pert_adj
    /\ ret.attacked
    /\ Len(result) = 3
    /\ result[2].adj_perturbed = Entry(args.epsilons[2], "attack")
    /\ result[1].adj_perturbed = Entry(0, "graph")

=============================================================================
